---- MODULE Spec2Model ----
(***************************************************************************)
(* Verification model of the iambic / noq_form reconciliation core:        *)
(*   - NoqSemaphore, the bounded concurrency executor                      *)
(*       (src/noq_form/core/utils.py)                                      *)
(*   - the managed-policy comparators (src/iambic/aws/iam/policy/utils.py) *)
(*   - the Okta user comparators      (src/iambic/okta/user/utils.py)      *)
(*   - the CI/CD handlers and the lambda entry point                       *)
(*       (src/iambic/cicd/github.py, github_app.py, lambda/app.py)         *)
(***************************************************************************)
EXTENDS Integers, Sequences, FiniteSets, TLC

VARIABLES
    \* ---- NoqSemaphore instance and the event loop around it ----
    batch_size,         \* the batch_size given to NoqSemaphore.__init__
    callback_is_async,  \* NoqSemaphore.callback_is_async
    limit,              \* self.limit: [value, waiters] of the asyncio.Semaphore
    tasks,              \* the tasks made by create_task, in creation order
    callbacks,          \* finished tasks whose gather done-callback has not run yet
    proc,               \* per process() call: the gather future it awaits
    \* ---- one comparator invocation ----
    cmp_fn,             \* the comparator that was invoked ("idle" before)
    cmp_args,           \* its arguments
    cmp_ret,            \* what it returned or raised
    cmp_calls           \* the provider calls it issued, in order

semVars == <<batch_size, callback_is_async, limit, tasks, callbacks, proc>>
cmpVars == <<cmp_fn, cmp_args, cmp_ret, cmp_calls>>
vars == <<batch_size, callback_is_async, limit, tasks, callbacks, proc,
          cmp_fn, cmp_args, cmp_ret, cmp_calls>>

(***************************************************************************)
(* Bounds of the model.                                                    *)
(***************************************************************************)
MaxBatch == 2       \* batch_size ranges over 1..MaxBatch
MaxItems == 3       \* a process() call receives 0..MaxItems messages

\* The process() calls that may be made on one instance; SemSpec makes one.
CallIds == {1, 2}

Range(s) == {s[i] : i \in DOMAIN s}

\* The message values handed to process(); a message list may repeat a value.
MsgVals == {"m1", "m2"}
MsgLists == UNION {[1..n -> MsgVals] : n \in 0..MaxItems}

NoCmpArgs == [none |-> TRUE]
NoCmpRet == [outcome |-> "none"]

CmpIdle ==
    /\ cmp_fn = "idle"
    /\ cmp_args = NoCmpArgs
    /\ cmp_ret = NoCmpRet
    /\ cmp_calls = <<>>

(***************************************************************************)
(* NoqSemaphore                                                            *)
(***************************************************************************)

\* The handler wrapped by the semaphore: its result for a message, and the
\* exception it raises for the message of task t when it fails.
callback_function(msg) == <<"result", msg>>
callback_error(t) == <<"error", t>>

\* NoqSemaphore.__init__: self.limit = asyncio.Semaphore(batch_size)
NoqSemaphore_init(b, is_async, calls) ==
    /\ batch_size = b
    /\ callback_is_async = is_async
    /\ limit = [value |-> b, waiters |-> <<>>]
    /\ tasks = <<>>
    /\ callbacks = <<>>
    /\ proc = [c \in calls |->
                 [state |-> "idle", messages |-> <<>>, children |-> <<>>,
                  finished |-> <<>>, result |-> <<>>, error |-> <<>>]]

\* asyncio.Semaphore.locked(): no permit is free, or a task queues before us.
locked_always_free(sem) == FALSE
locked(sem) == sem.value = 0 \/ sem.waiters # <<>>

\* An exit of "async with" that keeps the permit.
release_kept(sem) == sem

\* asyncio.Semaphore.release(), run by the exit of "async with self.limit":
\* the permit goes to the first waiter, or back to the counter.
release(sem) ==
    IF sem.waiters # <<>>
    THEN [value |-> sem.value, waiters |-> Tail(sem.waiters)]
    ELSE [value |-> sem.value + 1, waiters |-> <<>>]

\* The pc of the task a release() wakes up, if any.
wake(sem, ts) ==
    IF sem.waiters # <<>>
    THEN [ts EXCEPT ![Head(sem.waiters)].pc = "woken"]
    ELSE ts

\* process(): one task per message, all created at once in input order, then
\* the call awaits asyncio.gather over them.  gather() of nothing is [] at once.
process(c, messages) ==
    /\ proc[c].state = "idle"
    /\ LET first == Len(tasks)
           new == [i \in 1..Len(messages) |->
                     [call |-> c, idx |-> i, msg |-> messages[i], pc |-> "created",
                      invoked |-> 0, res |-> <<>>]]
       IN /\ tasks' = tasks \o new
          /\ proc' = [proc EXCEPT ![c] =
                        [state |-> IF messages = <<>> THEN "returned" ELSE "awaiting",
                         messages |-> messages,
                         children |-> [i \in 1..Len(messages) |-> first + i],
                         finished |-> <<>>, result |-> <<>>, error |-> <<>>]]
    /\ UNCHANGED <<batch_size, callback_is_async, limit, callbacks, cmpVars>>

\* handle_message up to "async with self.limit": the event loop starts the tasks
\* in creation order; a task takes a permit and enters the handler, or queues.
handle_message_acquire(t) ==
    /\ t \in DOMAIN tasks
    /\ tasks[t].pc = "created"
    /\ \A u \in 1..(t - 1) : tasks[u].pc # "created"
    /\ IF locked(limit)
       THEN /\ limit' = [limit EXCEPT !.waiters = Append(@, t)]
            /\ tasks' = [tasks EXCEPT ![t].pc = "waiting"]
       ELSE /\ limit' = [limit EXCEPT !.value = @ - 1]
            /\ tasks' = [tasks EXCEPT ![t].pc = "running", ![t].invoked = @ + 1]
    /\ UNCHANGED <<batch_size, callback_is_async, callbacks, proc, cmpVars>>

\* A woken waiter resumes inside "async with self.limit" and calls the handler
\* (awaited directly, or through aio_wrapper when callback_is_async is false).
handle_message_resume(t) ==
    /\ t \in DOMAIN tasks
    /\ tasks[t].pc = "woken"
    /\ tasks' = [tasks EXCEPT ![t].pc = "running", ![t].invoked = @ + 1]
    /\ UNCHANGED <<batch_size, callback_is_async, limit, callbacks, proc, cmpVars>>

\* The handler returns: the permit is released and the task is done.
handle_message_return(t) ==
    /\ t \in DOMAIN tasks
    /\ tasks[t].pc = "running"
    /\ limit' = release(limit)
    /\ tasks' = wake(limit, [tasks EXCEPT ![t].pc = "done",
                                          ![t].res = callback_function(tasks[t].msg)])
    /\ callbacks' = Append(callbacks, t)
    /\ UNCHANGED <<batch_size, callback_is_async, proc, cmpVars>>

\* The handler raises: the permit is released as well ("async with"), and the
\* task ends with the exception; handle_message has no except clause, no retry.
handle_message_raise(t) ==
    /\ t \in DOMAIN tasks
    /\ tasks[t].pc = "running"
    /\ limit' = release(limit)
    /\ tasks' = wake(limit, [tasks EXCEPT ![t].pc = "failed",
                                          ![t].res = callback_error(t)])
    /\ callbacks' = Append(callbacks, t)
    /\ UNCHANGED <<batch_size, callback_is_async, proc, cmpVars>>

\* What asyncio.gather(*tasks) (return_exceptions=False) does to its siblings
\* when a child ends with an exception: nothing, they keep running.
gather_cancel_siblings(ts, children) ==
    [u \in DOMAIN ts |->
        IF u \in Range(children) /\ ts[u].pc \in {"created", "waiting", "woken", "running"}
        THEN [ts[u] EXCEPT !.pc = "cancelled"]
        ELSE ts[u]]
gather_on_exception(ts, children) == ts

\* The result list gather hands to process(): the children's results in the
\* order the children were passed, whatever order they finished in.
gather_results_completion_order(ts, children, order) ==
    [i \in 1..Len(order) |-> ts[order[i]].res]
gather_results(ts, children, order) ==
    [i \in 1..Len(children) |-> ts[children[i]].res]

\* gather with return_exceptions=True would never raise.
gather_raises_never(task) == FALSE
gather_raises(task) == task.pc = "failed"

\* The done-callback of gather for the next finished task: the first exception
\* is set on the awaited future at once; the result list is set when the last
\* child has finished; a future that is already done is left alone.
gather_done_callback ==
    /\ callbacks # <<>>
    /\ LET t == Head(callbacks)
           c == tasks[t].call
           p == proc[c]
           order == Append(p.finished, t)
       IN IF p.state # "awaiting"
          THEN /\ proc' = [proc EXCEPT ![c].finished = order]
               /\ tasks' = tasks
          ELSE IF gather_raises(tasks[t])
          THEN /\ proc' = [proc EXCEPT ![c].finished = order,
                                       ![c].state = "raised",
                                       ![c].error = tasks[t].res]
               /\ tasks' = gather_on_exception(tasks, p.children)
          ELSE IF Len(order) = Len(p.children)
          THEN /\ proc' = [proc EXCEPT ![c].finished = order,
                              ![c].state = "returned",
                              ![c].result = gather_results(tasks, p.children, order)]
               /\ tasks' = tasks
          ELSE /\ proc' = [proc EXCEPT ![c].finished = order]
               /\ tasks' = tasks
    /\ callbacks' = Tail(callbacks)
    /\ UNCHANGED <<batch_size, callback_is_async, limit, cmpVars>>

SemInit ==
    /\ \E b \in 1..MaxBatch, a \in BOOLEAN : NoqSemaphore_init(b, a, {1})
    /\ CmpIdle

SemNext ==
    \/ \E c \in DOMAIN proc, messages \in MsgLists : process(c, messages)
    \/ \E t \in DOMAIN tasks : handle_message_acquire(t)
    \/ \E t \in DOMAIN tasks : handle_message_resume(t)
    \/ \E t \in DOMAIN tasks : handle_message_return(t)
    \/ \E t \in DOMAIN tasks : handle_message_raise(t)
    \/ gather_done_callback

\* Every handler invocation terminates and the event loop keeps running what is
\* runnable, so a step that stays possible is eventually taken.
SemSpec == SemInit /\ [][SemNext]_vars /\ WF_vars(SemNext)

\* Several process() calls on one NoqSemaphore instance: every call creates
\* its tasks on the same self.limit, while tasks of earlier calls may still
\* run or queue.  Each call passes 0..MaxSharedItems messages.
MaxSharedItems == 2
SharedMsgLists == {[i \in 1..n |-> "m1"] : n \in 0..MaxSharedItems}

SharedInit ==
    /\ \E b \in 1..MaxBatch, a \in BOOLEAN : NoqSemaphore_init(b, a, CallIds)
    /\ CmpIdle

SharedNext ==
    \/ \E c \in DOMAIN proc, messages \in SharedMsgLists : process(c, messages)
    \/ \E t \in DOMAIN tasks : handle_message_acquire(t)
    \/ \E t \in DOMAIN tasks : handle_message_resume(t)
    \/ \E t \in DOMAIN tasks : handle_message_return(t)
    \/ \E t \in DOMAIN tasks : handle_message_raise(t)
    \/ gather_done_callback

SharedSpec == SharedInit /\ [][SharedNext]_vars

(***************************************************************************)
(* Comparators: shared data                                                *)
(***************************************************************************)

\* Python's None, and a ProposedChange (iambic.core.models) with the fields
\* the comparators set; a field that is not set is None.
None == [none |-> TRUE]
ProposedChange(change_type, attribute, change_summary, current_value, new_value) ==
    [change_type |-> change_type, attribute |-> attribute,
     change_summary |-> change_summary,
     current_value |-> current_value, new_value |-> new_value]

\* What a comparator hands back: a list, None (it fell off its end), or an
\* exception.
Returned(response) == [outcome |-> "returned", kind |-> "list", value |-> response]
ReturnedNone == [outcome |-> "returned", kind |-> "None", value |-> <<>>]
Raised == [outcome |-> "raised", kind |-> "exception", value |-> <<>>]

\* One call made on a client.
Call(fn, arg) == [fn |-> fn, arg |-> arg]

\* The calls of seq up to and including the first one named in errs: the call
\* that reports an error ends a comparator that raises on it.
RECURSIVE UntilFirstError(_, _)
UntilFirstError(seq, errs) ==
    IF seq = <<>> THEN <<>>
    ELSE IF Head(seq).fn \in errs THEN <<Head(seq)>>
    ELSE <<Head(seq)>> \o UntilFirstError(Tail(seq), errs)

AnyError(seq, errs) == \E i \in DOMAIN seq : seq[i].fn \in errs

Count(seq, x) == Cardinality({i \in DOMAIN seq : seq[i] = x})

\* Sequences over S without repeated elements.
DistinctSeqs(S) ==
    UNION {{q \in [1..n -> S] : \A i, j \in 1..n : i # j => q[i] # q[j]} :
             n \in 0..Cardinality(S)}

(***************************************************************************)
(* Managed policy comparators (src/iambic/aws/iam/policy/utils.py)         *)
(***************************************************************************)

MaxStatements == 2      \* a policy document holds 0..MaxStatements statements
MaxPolicyVersions == 5  \* the version count at which the oldest is evicted

\* Policy documents: a Version and a list of statements (statements are atoms).
StatementVals == {"X", "Y"}
DocVersions == {"2012-10-17", "2008-10-17"}
Docs == [Version : DocVersions,
         Statement : UNION {[1..n -> StatementVals] : n \in 0..MaxStatements}]

\* json.dumps / json.loads of a document: the text form is told apart from
\* the parsed form.
json_dumps(doc) == [json |-> doc]
json_loads(text) == text.json
IsStr(x) == "json" \in DOMAIN x

\* A comparison that also compares the positions of list items.
DeepDiff_positional(t1, t2) ==
    LET differs(a, b, i) == i \notin DOMAIN b \/ a[i] # b[i]
    IN [values_changed |->
           IF t1.Version # t2.Version THEN {<<t1.Version, t2.Version>>} ELSE {},
        iterable_item_removed |->
           {t1.Statement[i] : i \in {k \in DOMAIN t1.Statement :
                                        differs(t1.Statement, t2.Statement, k)}},
        iterable_item_added |->
           {t2.Statement[i] : i \in {k \in DOMAIN t2.Statement :
                                        differs(t2.Statement, t1.Statement, k)}},
        repetition_change |-> {}]

\* DeepDiff(t1, t2, ignore_order=True, report_repetition=True): changed
\* scalars, list items only in one of the lists, and items whose number of
\* repetitions differs; the order of list items is not compared.
DeepDiff(t1, t2) ==
    [values_changed |->
        IF t1.Version # t2.Version THEN {<<t1.Version, t2.Version>>} ELSE {},
     iterable_item_removed |-> Range(t1.Statement) \ Range(t2.Statement),
     iterable_item_added |-> Range(t2.Statement) \ Range(t1.Statement),
     repetition_change |->
        {x \in Range(t1.Statement) \cap Range(t2.Statement) :
            Count(t1.Statement, x) # Count(t2.Statement, x)}]

\* bool(policy_drift): an empty DeepDiff is falsy.
Truthy(drift) ==
    \/ drift.values_changed # {}
    \/ drift.iterable_item_removed # {}
    \/ drift.iterable_item_added # {}
    \/ drift.repetition_change # {}

\* The version lists list_policy_versions may answer with: 1..5 versions,
\* exactly one of them the default version.  The creation dates are distinct,
\* or the two earliest versions carry the same date (a second-resolution
\* timestamp), in either order of the list.
EarliestDates(n) == IF n > 1 THEN {1, 2} ELSE {1}
VersionLists ==
    UNION {{[i \in 1..n |->
               [VersionId |-> i,
                CreateDate |-> IF ((i + shift) % n) + 1 < earliest
                               THEN earliest ELSE ((i + shift) % n) + 1,
                IsDefaultVersion |-> (i = d)]] :
             d \in 1..n, shift \in 0..(n - 1), earliest \in EarliestDates(n)} :
           n \in 1..MaxPolicyVersions}

\* sorted(policy_versions, key=CreateDate)[k]: the sort is stable, versions
\* with the same date keep the order of the list.
SortedByCreateDate(policy_versions, k) ==
    LET before(j, i) ==
            \/ policy_versions[j].CreateDate < policy_versions[i].CreateDate
            \/ /\ policy_versions[j].CreateDate = policy_versions[i].CreateDate
               /\ j < i
    IN policy_versions[CHOOSE i \in DOMAIN policy_versions :
           Cardinality({j \in DOMAIN policy_versions : before(j, i)}) = k - 1]

\* The version with the earliest date, whether or not it is the default one.
get_oldest_policy_version_id_any(policy_versions) ==
    [VersionId |-> SortedByCreateDate(policy_versions, 1).VersionId]

\* get_oldest_policy_version_id; it returns None when the only version is the
\* default one.
get_oldest_policy_version_id(policy_versions) ==
    IF ~SortedByCreateDate(policy_versions, 1).IsDefaultVersion
    THEN [VersionId |-> SortedByCreateDate(policy_versions, 1).VersionId]
    ELSE IF Len(policy_versions) > 1
    THEN [VersionId |-> SortedByCreateDate(policy_versions, 2).VersionId]
    ELSE None

\* update_managed_policy: the guard of the write calls of lines 174-191.
\* The ExecutionContext is not consulted.
update_managed_policy_writes(iambic_import_only, execute) ==
    ~iambic_import_only

\* The write calls with the new version created before the eviction.
update_managed_policy_calls_create_first(template_policy_document, policy_drift, iambic_import_only, execute, policy_versions) ==
    IF Truthy(policy_drift)
       /\ update_managed_policy_writes(iambic_import_only, execute)
    THEN <<Call("list_policy_versions", None),
           Call("create_policy_version", json_dumps(template_policy_document))>>
         \o (IF Len(policy_versions) = MaxPolicyVersions
             THEN <<Call("delete_policy_version",
                         get_oldest_policy_version_id(policy_versions))>>
             ELSE <<>>)
    ELSE <<>>

\* update_managed_policy: the calls it makes when nothing fails.
update_managed_policy_calls(template_policy_document, policy_drift, iambic_import_only, execute, policy_versions) ==
    IF Truthy(policy_drift)
       /\ update_managed_policy_writes(iambic_import_only, execute)
    THEN <<Call("list_policy_versions", None)>>
         \o (IF Len(policy_versions) = MaxPolicyVersions
             THEN <<Call("delete_policy_version",
                         get_oldest_policy_version_id(policy_versions))>>
             ELSE <<>>)
         \o <<Call("create_policy_version", json_dumps(template_policy_document))>>
    ELSE <<>>

\* update_managed_policy: the ProposedChange list, which does not depend on
\* the mode.
update_managed_policy_response(template_policy_document, existing, policy_drift) ==
    IF Truthy(policy_drift)
    THEN <<ProposedChange("UPDATE", "policy_document", policy_drift,
                          existing, template_policy_document)>>
    ELSE <<>>

\* update_managed_policy as a whole; errs names the client calls that fail.
update_managed_policy(template_policy_document, existing_policy_document, iambic_import_only, execute, policy_versions, errs) ==
    LET existing == IF IsStr(existing_policy_document)
                    THEN json_loads(existing_policy_document)
                    ELSE existing_policy_document
        policy_drift == DeepDiff(existing, template_policy_document)
        planned == update_managed_policy_calls(template_policy_document, policy_drift,
                       iambic_import_only, execute, policy_versions)
    IN [calls |-> UntilFirstError(planned, errs),
        ret |-> IF AnyError(planned, errs) THEN Raised
                ELSE Returned(update_managed_policy_response(
                         template_policy_document, existing, policy_drift))]

\* Tags: lists of {Key, Value} with distinct keys; a value may be empty.
TagKeys == {"k1", "k2"}
TagValues == {"", "v1", "v2"}
TagLists ==
    {q \in UNION {[1..n -> [Key : TagKeys, Value : TagValues]] :
                     n \in 0..Cardinality(TagKeys)} :
        \A i, j \in DOMAIN q : i # j => q[i].Key # q[j].Key}

\* dict.get(key) of {tag["Key"]: tag["Value"]}: the value, or None.
tag_map_get(tags, key) ==
    IF \E i \in DOMAIN tags : tags[i].Key = key
    THEN [value |-> (CHOOSE t \in Range(tags) : t.Key = key).Value]
    ELSE None

\* Python truth of dict.get's answer: None and "" are falsy.
tag_value_truthy(v) == v # None /\ v # [value |-> ""]

\* apply_managed_policy_tags: the guards of its two write calls.
untag_guard(iambic_import_only, execute) == ~iambic_import_only
tag_guard(iambic_import_only, execute) == execute

tags_to_apply(template_tags, existing_tags) ==
    SelectSeq(template_tags,
              LAMBDA tag : [value |-> tag.Value] # tag_map_get(existing_tags, tag.Key))

tags_to_remove(template_tags, existing_tags) ==
    LET stale == SelectSeq(existing_tags,
                    LAMBDA tag : ~tag_value_truthy(tag_map_get(template_tags, tag.Key)))
    IN [i \in 1..Len(stale) |-> stale[i].Key]

\* The records with the ATTACH records ahead of the DETACH record.
apply_managed_policy_tags_response_attach_first(template_tags, existing_tags) ==
    LET rm == tags_to_remove(template_tags, existing_tags)
        ap == tags_to_apply(template_tags, existing_tags)
    IN [i \in 1..Len(ap) |-> ProposedChange("ATTACH", "tags", None, None, ap[i])]
       \o (IF rm # <<>>
           THEN <<ProposedChange("DETACH", "tags", [TagKeys |-> rm], None, None)>>
           ELSE <<>>)

\* apply_managed_policy_tags: one DETACH for the stale keys, then one ATTACH
\* for each tag to apply.
apply_managed_policy_tags_response(template_tags, existing_tags) ==
    LET rm == tags_to_remove(template_tags, existing_tags)
        ap == tags_to_apply(template_tags, existing_tags)
    IN (IF rm # <<>>
        THEN <<ProposedChange("DETACH", "tags", [TagKeys |-> rm], None, None)>>
        ELSE <<>>)
       \o [i \in 1..Len(ap) |-> ProposedChange("ATTACH", "tags", None, None, ap[i])]

\* apply_managed_policy_tags: the tasks list handed to asyncio.gather.
apply_managed_policy_tags_tasks(template_tags, existing_tags, iambic_import_only, execute) ==
    LET rm == tags_to_remove(template_tags, existing_tags)
        ap == tags_to_apply(template_tags, existing_tags)
    IN (IF rm # <<>> /\ untag_guard(iambic_import_only, execute)
        THEN <<Call("untag_policy", [TagKeys |-> rm])>>
        ELSE <<>>)
       \o (IF ap # <<>> /\ tag_guard(iambic_import_only, execute)
           THEN <<Call("tag_policy", [Tags |-> ap])>>
           ELSE <<>>)

\* asyncio.gather runs the tasks concurrently (each in a worker thread through
\* aio_wrapper): both calls are issued, in either order.
GatherOrders == {"as_listed", "reversed"}
gather_concurrently(task_list, order) ==
    IF order = "reversed"
    THEN [i \in 1..Len(task_list) |-> task_list[Len(task_list) + 1 - i]]
    ELSE task_list

apply_managed_policy_tags(template_tags, existing_tags, iambic_import_only, execute, errs, order) ==
    LET task_list == apply_managed_policy_tags_tasks(template_tags, existing_tags,
                         iambic_import_only, execute)
    IN [calls |-> gather_concurrently(task_list, order),
        ret |-> IF AnyError(task_list, errs) THEN Raised
                ELSE Returned(apply_managed_policy_tags_response(
                         template_tags, existing_tags))]

(***************************************************************************)
(* Okta user comparators (src/iambic/okta/user/utils.py)                   *)
(***************************************************************************)

\* The lifecycle states of an Okta user.
Statuses == {"staged", "provisioned", "active", "recovery", "password_expired",
             "locked_out", "suspended", "deprovisioned", "deleted"}

\* A request that update_user_status builds; NoRequest when no branch applies.
Request(method, url) == [method |-> method, url |-> url]
NoRequest == [invalid |-> TRUE]

\* current_status in "provisioned": a substring test; among the lifecycle
\* states only "provisioned" itself is a substring of "provisioned".
in_provisioned(current_status) == current_status = "provisioned"

\* update_user_status, lines 236-270: the method and endpoint (relative to
\* /api/v1/users/{user_id}) chosen for a status change, first match wins; the
\* final else raises the invalid-transition exception.
api_endpoint_else_guess == Request("POST", "/lifecycle/activate")
api_endpoint_else == NoRequest

api_endpoint_swapped(current_status, new_status) ==
    IF current_status = "suspended" /\ new_status = "active"
    THEN Request("POST", "/lifecycle/suspend")
    ELSE IF current_status = "active" /\ new_status = "suspended"
    THEN Request("POST", "/lifecycle/unsuspend")
    ELSE IF new_status = "deleted" THEN Request("DELETE", "")
    ELSE api_endpoint_else
api_endpoint(current_status, new_status) ==
    IF current_status = "suspended" /\ new_status = "active"
    THEN Request("POST", "/lifecycle/unsuspend")
    ELSE IF current_status = "active" /\ new_status = "suspended"
    THEN Request("POST", "/lifecycle/suspend")
    ELSE IF new_status = "deprovisioned" /\ current_status # "deprovisioned"
    THEN Request("POST", "/lifecycle/deactivate")
    ELSE IF current_status \in {"staged", "deprovisioned"}
            /\ new_status \in {"active", "provisioned"}
    THEN Request("POST", "/lifecycle/activate")
    ELSE IF in_provisioned(current_status) /\ new_status = "active"
    THEN Request("POST", "/lifecycle/reactivate")
    ELSE IF current_status = "locked_out" /\ new_status = "active"
    THEN Request("POST", "/lifecycle/unlock")
    ELSE IF new_status = "recovery"
    THEN Request("POST", "/lifecycle/reset_password")
    ELSE IF new_status = "password_expired"
    THEN Request("POST", "/lifecycle/expire_password")
    ELSE IF new_status = "deleted"
    THEN Request("DELETE", "")
    ELSE api_endpoint_else

\* The early return of the status comparators when nothing changes.
status_unchanged_never(current_status, new_status) == FALSE
status_unchanged(current_status, new_status) == current_status = new_status

\* update_user_status.  user_present is "if not user"; errs names the calls of
\* the request executor that report an error.
update_user_status(user_present, current_status, new_status, execute, errs) ==
    LET response == <<ProposedChange("UPDATE", "status",
                         [current_status |-> current_status,
                          proposed_status |-> new_status], None, None)>>
        req == api_endpoint(current_status, new_status)
        planned == <<Call("create_request", req), Call("execute", req)>>
    IN IF ~user_present \/ status_unchanged(current_status, new_status)
       THEN [calls |-> <<>>, ret |-> Returned(<<>>)]
       ELSE IF ~execute
       THEN [calls |-> <<>>, ret |-> Returned(response)]
       ELSE IF req = NoRequest
       THEN [calls |-> <<Call("get_okta_client", None)>>, ret |-> Raised]
       ELSE [calls |-> <<Call("get_okta_client", None)>>
                       \o UntilFirstError(planned, errs),
             ret |-> IF AnyError(planned, errs) THEN Raised
                     ELSE Returned(response)]

\* change_user_status: the status is written with update_user.
change_user_status(current_status, new_status, execute, errs) ==
    LET response == <<ProposedChange("UPDATE", "status", None, None,
                                     [status |-> new_status])>>
        planned == <<Call("update_user", [status |-> new_status])>>
    IN IF status_unchanged(current_status, new_status)
       THEN [calls |-> <<Call("get_okta_client", None)>>, ret |-> Returned(<<>>)]
       ELSE IF ~execute
       THEN [calls |-> <<Call("get_okta_client", None)>>, ret |-> Returned(response)]
       ELSE [calls |-> <<Call("get_okta_client", None)>> \o planned,
             ret |-> IF AnyError(planned, errs) THEN Raised ELSE Returned(response)]

\* update_user_profile: an update error raises unless the template user is
\* marked deleted.
Profiles == {[firstName |-> "a"], [firstName |-> "b"]}
update_user_profile(proposed_user_deleted, user_present, current_profile, new_profile, execute, errs) ==
    LET response == <<ProposedChange("UPDATE", "profile",
                         [current_profile |-> current_profile,
                          new_profile |-> new_profile], None, None)>>
        planned == <<Call("update_user", [profile |-> new_profile])>>
    IN IF ~user_present \/ current_profile = new_profile
       THEN [calls |-> <<>>, ret |-> Returned(<<>>)]
       ELSE IF ~execute
       THEN [calls |-> <<>>, ret |-> Returned(response)]
       ELSE [calls |-> <<Call("get_okta_client", None)>> \o planned,
             ret |-> IF AnyError(planned, errs) /\ ~proposed_user_deleted
                     THEN Raised ELSE Returned(response)]

\* maybe_delete_user: deactivate_or_delete_user is called twice.
maybe_delete_user(delete, user_present, execute, errs) ==
    LET response == <<ProposedChange("DELETE", "user", [user |-> "username"],
                                     None, None)>>
        planned == <<Call("deactivate_or_delete_user", None),
                     Call("deactivate_or_delete_user", None)>>
    IN IF ~user_present \/ ~delete
       THEN [calls |-> <<>>, ret |-> Returned(<<>>)]
       ELSE IF ~execute
       THEN [calls |-> <<>>, ret |-> Returned(response)]
       ELSE [calls |-> <<Call("get_okta_client", None)>>
                       \o UntilFirstError(planned, errs),
             ret |-> IF AnyError(planned, errs) THEN Raised ELSE Returned(response)]

\* App assignments: lists of app ids without repetition.
AppIds == {"a", "b"}
AssignmentLists == DistinctSeqs(AppIds)

assignments_to_remove(current_assignments, desired_assignments) ==
    SelectSeq(current_assignments, LAMBDA a : a \notin Range(desired_assignments))
assignments_to_add(current_assignments, desired_assignments) ==
    SelectSeq(desired_assignments, LAMBDA a : a \notin Range(current_assignments))

\* One pass of a loop of update_user_assignments: a lookup call, then the
\* change call unless the lookup reported an error ("continue"); an error of
\* the change call is logged and the loop goes on.
RECURSIVE assignment_loop(_, _, _, _)
assignment_loop(assignments, lookup, change, errs) ==
    IF assignments = <<>> THEN <<>>
    ELSE <<Call(lookup, [app |-> Head(assignments)])>>
         \o (IF lookup \in errs THEN <<>>
             ELSE <<Call(change, [app |-> Head(assignments)])>>)
         \o assignment_loop(Tail(assignments), lookup, change, errs)

\* update_user_assignments, lines 444-464: the DETACH and ATTACH records.
update_user_assignments_response(current_assignments, new_assignments) ==
    LET rm == assignments_to_remove(current_assignments, new_assignments)
        add == assignments_to_add(current_assignments, new_assignments)
    IN (IF rm # <<>>
        THEN <<ProposedChange("DETACH", "assignments",
                              [AssignmentsToRemove |-> rm], None, None)>>
        ELSE <<>>)
       \o (IF add # <<>>
           THEN <<ProposedChange("ATTACH", "assignments",
                                 [AssignmentsToAdd |-> add], None, None)>>
           ELSE <<>>)

\* update_user_assignments: "return response" is inside "if context.execute";
\* without execute the function ends without a return statement.
update_user_assignments(current_assignments, new_assignments, execute, errs) ==
    LET rm == assignments_to_remove(current_assignments, new_assignments)
        add == assignments_to_add(current_assignments, new_assignments)
        response == update_user_assignments_response(current_assignments,
                                                     new_assignments)
    IN IF execute
       THEN [calls |-> <<Call("get_okta_client", None)>>
                \o assignment_loop(rm, "get_app", "remove_user_from_app", errs)
                \o assignment_loop(add, "get_application_by_label",
                                   "assign_application_to_user", errs)
                \o assignment_loop(rm, "get_application_by_label",
                                   "deassign_application_from_user", errs),
             ret |-> Returned(response)]
       ELSE [calls |-> <<Call("get_okta_client", None)>>, ret |-> ReturnedNone]

(***************************************************************************)
(* One comparator invocation per behaviour                                 *)
(***************************************************************************)

\* The calls that change the provider's state.
MutatingCalls ==
    {"delete_policy_version", "create_policy_version", "untag_policy", "tag_policy",
     "update_user", "create_request", "execute", "deactivate_or_delete_user",
     "remove_user_from_app", "assign_application_to_user",
     "deassign_application_from_user"}

\* Constructing the client object is not a request to the provider.
ProviderCalls(calls) == SelectSeq(calls, LAMBDA c : c.fn # "get_okta_client")

Invoke(fn, args, result) ==
    /\ cmp_fn' = fn
    /\ cmp_args' = args
    /\ cmp_ret' = result.ret
    /\ cmp_calls' = result.calls
    /\ UNCHANGED semVars

\* At most one client call reports an error in an invocation.
OneError(fns) == {{}} \cup {{f} : f \in fns}

Call_update_managed_policy ==
    /\ cmp_fn = "idle"
    /\ \E template \in Docs, existing \in Docs, as_str \in BOOLEAN,
          import_only \in BOOLEAN, execute \in BOOLEAN :
         \E policy_versions \in
                (IF Truthy(DeepDiff(existing, template))
                    /\ update_managed_policy_writes(import_only, execute)
                 THEN VersionLists ELSE {<<>>}),
            errs \in OneError({"list_policy_versions", "delete_policy_version",
                               "create_policy_version"}) :
           Invoke("update_managed_policy",
                  [template_policy_document |-> template,
                   existing_policy_document |->
                       IF as_str THEN json_dumps(existing) ELSE existing,
                   iambic_import_only |-> import_only, execute |-> execute,
                   policy_versions |-> policy_versions, errs |-> errs],
                  update_managed_policy(template,
                       IF as_str THEN json_dumps(existing) ELSE existing,
                       import_only, execute, policy_versions, errs))

Call_apply_managed_policy_tags ==
    /\ cmp_fn = "idle"
    /\ \E template_tags \in TagLists, existing_tags \in TagLists,
          import_only \in BOOLEAN, execute \in BOOLEAN,
          errs \in OneError({"untag_policy", "tag_policy"}), order \in GatherOrders :
           Invoke("apply_managed_policy_tags",
                  [template_tags |-> template_tags, existing_tags |-> existing_tags,
                   iambic_import_only |-> import_only, execute |-> execute,
                   errs |-> errs],
                  apply_managed_policy_tags(template_tags, existing_tags, import_only,
                                            execute, errs, order))

Call_update_user_status ==
    /\ cmp_fn = "idle"
    /\ \E user_present \in BOOLEAN, current_status \in Statuses, new_status \in Statuses,
          execute \in BOOLEAN, errs \in OneError({"create_request", "execute"}) :
           Invoke("update_user_status",
                  [user_present |-> user_present, current_status |-> current_status,
                   new_status |-> new_status, execute |-> execute, errs |-> errs],
                  update_user_status(user_present, current_status, new_status,
                                     execute, errs))

Call_change_user_status ==
    /\ cmp_fn = "idle"
    /\ \E current_status \in Statuses, new_status \in Statuses,
          execute \in BOOLEAN, errs \in OneError({"update_user"}) :
           Invoke("change_user_status",
                  [current_status |-> current_status, new_status |-> new_status,
                   execute |-> execute, errs |-> errs],
                  change_user_status(current_status, new_status, execute, errs))

Call_update_user_profile ==
    /\ cmp_fn = "idle"
    /\ \E proposed_user_deleted \in BOOLEAN, user_present \in BOOLEAN,
          current_profile \in Profiles, new_profile \in Profiles,
          execute \in BOOLEAN, errs \in OneError({"update_user"}) :
           Invoke("update_user_profile",
                  [proposed_user_deleted |-> proposed_user_deleted,
                   user_present |-> user_present, current_profile |-> current_profile,
                   new_profile |-> new_profile, execute |-> execute, errs |-> errs],
                  update_user_profile(proposed_user_deleted, user_present,
                                      current_profile, new_profile, execute, errs))

Call_maybe_delete_user ==
    /\ cmp_fn = "idle"
    /\ \E delete \in BOOLEAN, user_present \in BOOLEAN, execute \in BOOLEAN,
          errs \in OneError({"deactivate_or_delete_user"}) :
           Invoke("maybe_delete_user",
                  [delete |-> delete, user_present |-> user_present,
                   execute |-> execute, errs |-> errs],
                  maybe_delete_user(delete, user_present, execute, errs))

Call_update_user_assignments ==
    /\ cmp_fn = "idle"
    /\ \E current_assignments \in AssignmentLists, new_assignments \in AssignmentLists,
          execute \in BOOLEAN,
          errs \in SUBSET {"get_app", "remove_user_from_app", "get_application_by_label",
                           "assign_application_to_user",
                           "deassign_application_from_user"} :
           Invoke("update_user_assignments",
                  [current_assignments |-> current_assignments,
                   new_assignments |-> new_assignments,
                   execute |-> execute, errs |-> errs],
                  update_user_assignments(current_assignments, new_assignments,
                                          execute, errs))

CmpInit ==
    /\ NoqSemaphore_init(1, TRUE, {1})
    /\ CmpIdle

CmpNext ==
    \/ Call_update_managed_policy
    \/ Call_apply_managed_policy_tags
    \/ Call_update_user_status
    \/ Call_change_user_status
    \/ Call_update_user_profile
    \/ Call_maybe_delete_user
    \/ Call_update_user_assignments

CmpSpec == CmpInit /\ [][CmpNext]_vars

(***************************************************************************)
(* Account scope resolver (src/noq_form/core/utils.py)                     *)
(***************************************************************************)

MaxVariants == 2    \* get_closest_value receives 1..MaxVariants variants

\* Strings are sequences of characters, so that len(), lower() and the
\* prefix match of re.match are computed.
Star == <<"*">>
AccountIdVals == {<<"1">>, <<"1", "2">>}
NoName == <<>>
AccountNameVals == {NoName, <<"a">>, <<"A", "b">>}
AccountConfigs == [account_id : AccountIdVals, account_name : AccountNameVals]

\* The patterns of included_accounts: literal identifiers, or the wildcard.
PatternVals == {Star, <<"1">>, <<"1", "2">>, <<"2">>, <<"a">>, <<"A", "b">>}
IncludedAccountsVals ==
    {q \in UNION {[1..n -> PatternVals] : n \in 0..2} :
        \A i, j \in DOMAIN q : i # j => q[i] # q[j]}
Variants == [included_accounts : IncludedAccountsVals]
VariantLists == UNION {[1..n -> Variants] : n \in 1..MaxVariants}

\* A lower() that leaves the letter case as it is.
lower_as_is(str) == str

\* str.lower()
lower_char(c) == IF c = "A" THEN "a" ELSE IF c = "B" THEN "b" ELSE c
lower(str) == [i \in DOMAIN str |-> lower_char(str[i])]

\* re.match(pattern, string) for a pattern that is a literal identifier or
\* "*": a literal matches when the string starts with it; "*" alone is not a
\* regular expression and re.match raises re.error ("nothing to repeat").
re_match(pattern, string) ==
    IF pattern = Star THEN "error"
    ELSE IF Len(pattern) <= Len(string) /\ SubSeq(string, 1, Len(pattern)) = pattern
    THEN "match"
    ELSE "no match"

\* sorted(included_accounts, key=len): a stable sort by length.
RECURSIVE sorted_key_len(_, _)
sorted_key_len(strs, n) ==
    IF \A i \in DOMAIN strs : Len(strs[i]) < n THEN <<>>
    ELSE SelectSeq(strs, LAMBDA str : Len(str) = n) \o sorted_key_len(strs, n + 1)

\* get_closest_value, lines 53-55: the candidate ids of the target account.
candidate_ids(account_config) ==
    <<account_config.account_id>>
    \o (IF account_config.account_name # NoName
        THEN <<lower(account_config.account_name)>>
        ELSE <<>>)

\* account_value_hit; returns is the position of the variant in
\* matching_values, 0 for None. raised records an exception leaving the loops.
NoHit == [returns |-> 0, specificty |-> 0, raised |-> FALSE]
Hit(v, specificty) == [returns |-> v, specificty |-> specificty, raised |-> FALSE]

\* The innermost loop (lines 60-72) over the candidate ids for one pattern.
\* The wildcard branch does not break; the match branch does.
RECURSIVE account_id_loop(_, _, _, _)
account_id_loop(hit, v, resource_account, account_ids) ==
    IF account_ids = <<>> \/ hit.raised THEN hit
    ELSE IF resource_account = Star /\ hit.specificty = 0
    THEN account_id_loop(Hit(v, 1), v, resource_account, Tail(account_ids))
    ELSE LET m == re_match(lower(resource_account), Head(account_ids))
         IN IF m = "error" THEN [hit EXCEPT !.raised = TRUE]
            ELSE IF m = "match" /\ Len(resource_account) > hit.specificty
            THEN Hit(v, Len(resource_account))
            ELSE account_id_loop(hit, v, resource_account, Tail(account_ids))

\* The loop over the sorted patterns of one variant (lines 58-59).
RECURSIVE resource_account_loop(_, _, _, _)
resource_account_loop(hit, v, resource_accounts, account_ids) ==
    IF resource_accounts = <<>> \/ hit.raised THEN hit
    ELSE resource_account_loop(
             account_id_loop(hit, v, Head(resource_accounts), account_ids),
             v, Tail(resource_accounts), account_ids)

\* The loop over the variants (line 57), from variant v on.
RECURSIVE matching_value_loop(_, _, _, _)
matching_value_loop(hit, v, matching_values, account_ids) ==
    IF v > Len(matching_values) \/ hit.raised THEN hit
    ELSE matching_value_loop(
             resource_account_loop(hit, v,
                 sorted_key_len(matching_values[v].included_accounts, 0),
                 account_ids),
             v + 1, matching_values, account_ids)

\* No early return: a single variant goes through the loops as well.
single_value_shortcut_never(matching_values) == FALSE

\* get_closest_value, lines 48-49: a single variant is returned at once.
single_value_shortcut(matching_values) == Len(matching_values) = 1

\* What get_closest_value hands back: a variant (by position), None, or an
\* exception.
ReturnedVariant(v) == [outcome |-> "returned", returns |-> v]
RaisedReError == [outcome |-> "raised", returns |-> 0]

get_closest_value(matching_values, account_config) ==
    IF single_value_shortcut(matching_values) THEN ReturnedVariant(1)
    ELSE LET hit == matching_value_loop(NoHit, 1, matching_values,
                                        candidate_ids(account_config))
         IN IF hit.raised THEN RaisedReError ELSE ReturnedVariant(hit.returns)

Call_get_closest_value ==
    /\ cmp_fn = "idle"
    /\ \E matching_values \in VariantLists, account_config \in AccountConfigs :
          /\ cmp_fn' = "get_closest_value"
          /\ cmp_args' = [matching_values |-> matching_values,
                          account_config |-> account_config]
          /\ cmp_ret' = get_closest_value(matching_values, account_config)
          /\ cmp_calls' = <<>>
          /\ UNCHANGED semVars


\* Access rules for evaluate_on_account: the four pattern lists of an
\* AccessModel; a resource that is no AccessModel has no rule.
OrgUnset == <<>>
OrgIdVals == {OrgUnset, <<"o">>, <<"p">>}
RuleIncludedVals ==
    {q \in UNION {[1..n -> {Star, <<"1">>, <<"2">>, <<"A", "b">>}] : n \in 0..2} :
        \A i, j \in DOMAIN q : i # j => q[i] # q[j]}
RuleExcludedVals ==
    {q \in UNION {[1..n -> {Star, <<"1">>, <<"A", "b">>}] : n \in 0..2} :
        \A i, j \in DOMAIN q : i # j => q[i] # q[j]}
IncludedOrgsVals == {<<>>, <<Star>>, <<<<"o">>>>, <<Star, <<"o">>>>, <<<<"o">>, Star>>}
ExcludedOrgsVals == {<<>>, <<<<"o">>>>}
AccessModels ==
    [is_access_model : {TRUE},
     included_accounts : RuleIncludedVals, excluded_accounts : RuleExcludedVals,
     included_orgs : IncludedOrgsVals, excluded_orgs : ExcludedOrgsVals]
OtherModel ==
    [is_access_model |-> FALSE,
     included_accounts |-> <<>>, excluded_accounts |-> <<>>,
     included_orgs |-> <<>>, excluded_orgs |-> <<>>]
Resources == AccessModels \cup {OtherModel}
TargetAccounts ==
    [account_id : AccountIdVals, account_name : {NoName, <<"A", "b">>},
     org_id : OrgIdVals]

\* any(re.match(pattern, string) for pattern in patterns): the generator is
\* consumed in list order and stops at the first match; a "*" reached before
\* a match raises re.error.
RECURSIVE any_re_match(_, _)
any_re_match(patterns, string) ==
    IF patterns = <<>> THEN "no match"
    ELSE LET m == re_match(Head(patterns), string)
         IN IF m = "no match" THEN any_re_match(Tail(patterns), string) ELSE m

lower_all(patterns) == [i \in DOMAIN patterns |-> lower(patterns[i])]

\* What evaluate_on_account and apply_to_account hand back.
ReturnedBool(b) == [outcome |-> "returned", returns |-> b]
RaisedError == [outcome |-> "raised", returns |-> FALSE]

\* evaluate_on_account, lines 81-87: the org rules. "pass" goes on to the
\* account rules.
evaluate_orgs(resource, account_config) ==
    IF account_config.org_id = OrgUnset THEN "pass"
    ELSE IF account_config.org_id \in Range(resource.excluded_orgs) THEN "False"
    ELSE LET m == any_re_match(resource.included_orgs, account_config.org_id)
         IN IF m = "error" THEN "error"
            ELSE IF m = "no match" THEN "False" ELSE "pass"

\* evaluate_on_account, lines 93-98: the exclusion loop over the candidate ids.
RECURSIVE evaluate_excluded(_, _)
evaluate_excluded(resource, account_ids) ==
    IF account_ids = <<>> THEN "pass"
    ELSE LET m == any_re_match(lower_all(resource.excluded_accounts), Head(account_ids))
         IN IF m = "error" THEN "error"
            ELSE IF m = "match" THEN "False"
            ELSE evaluate_excluded(resource, Tail(account_ids))

\* evaluate_on_account, lines 100-111: the inclusion loop.
RECURSIVE evaluate_included(_, _)
evaluate_included(resource, account_ids) ==
    IF account_ids = <<>> THEN "False"
    ELSE IF Star \in Range(resource.included_accounts) THEN "True"
    ELSE LET m == any_re_match(lower_all(resource.included_accounts), Head(account_ids))
         IN IF m = "error" THEN "error"
            ELSE IF m = "match" THEN "True"
            ELSE evaluate_included(resource, Tail(account_ids))

\* The exclusion loop comes before the inclusion loop.
excluded_first(resource, account_ids) ==
    LET ex == evaluate_excluded(resource, account_ids)
    IN IF ex = "pass" THEN evaluate_included(resource, account_ids) ELSE ex

evaluate_on_account(resource, account_config) ==
    LET verdict ==
            IF ~resource.is_access_model THEN "True"
            ELSE LET org == evaluate_orgs(resource, account_config)
                 IN IF org = "pass"
                    THEN excluded_first(resource, candidate_ids(account_config))
                    ELSE org
    IN IF verdict = "error" THEN RaisedError ELSE ReturnedBool(verdict = "True")

\* The deleted attribute of a resource: absent, a plain boolean, or a list of
\* per-account variants (as get_attribute_val_for_account returns them), each
\* with its included_accounts and its enabled attribute.
NoDeleted == [kind |-> "absent"]
BoolDeleted(b) == [kind |-> "bool", flag |-> b]
DeletedVariants ==
    [included_accounts : {<<Star>>, <<<<"1">>>>, <<<<"2">>>>}, enabled : BOOLEAN]
ListDeleted(variants) == [kind |-> "list", variants |-> variants]
DeletedVals ==
    {NoDeleted} \cup {BoolDeleted(b) : b \in BOOLEAN}
    \cup {ListDeleted(q) : q \in UNION {[1..n -> DeletedVariants] : n \in 1..2}}

\* apply_to_account, lines 116-119: a plain boolean deleted that is False
\* ends the function with False.
bool_deleted_out_of_scope(deleted) == ~deleted

\* apply_to_account, lines 116-126: "out" (return False), "error", or "pass"
\* on to evaluate_on_account.
apply_deleted(deleted, account_config) ==
    IF deleted.kind = "absent" THEN "pass"
    ELSE IF deleted.kind = "bool"
    THEN IF bool_deleted_out_of_scope(deleted.flag) THEN "out" ELSE "pass"
    ELSE LET enabled_obj == get_closest_value(deleted.variants, account_config)
         IN IF enabled_obj.outcome = "raised" \/ enabled_obj.returns = 0 THEN "error"
            ELSE IF ~deleted.variants[enabled_obj.returns].enabled THEN "out"
            ELSE "pass"

apply_to_account(resource, deleted, account_config) ==
    LET gate == apply_deleted(deleted, account_config)
    IN IF gate = "out" THEN ReturnedBool(FALSE)
       ELSE IF gate = "error" THEN RaisedError
       ELSE evaluate_on_account(resource, account_config)

Call_evaluate_on_account ==
    /\ cmp_fn = "idle"
    /\ \E resource \in Resources, account_config \in TargetAccounts :
          /\ cmp_fn' = "evaluate_on_account"
          /\ cmp_args' = [resource |-> resource, account_config |-> account_config]
          /\ cmp_ret' = evaluate_on_account(resource, account_config)
          /\ cmp_calls' = <<>>
          /\ UNCHANGED semVars

Call_apply_to_account ==
    /\ cmp_fn = "idle"
    /\ \E resource \in Resources, deleted \in DeletedVals,
          account_config \in TargetAccounts :
          /\ cmp_fn' = "apply_to_account"
          /\ cmp_args' = [resource |-> resource, deleted |-> deleted,
                          account_config |-> account_config]
          /\ cmp_ret' = apply_to_account(resource, deleted, account_config)
          /\ cmp_calls' = <<>>
          /\ UNCHANGED semVars

ScopeInit == CmpInit
ScopeNext ==
    \/ Call_get_closest_value
    \/ Call_evaluate_on_account
    \/ Call_apply_to_account
ScopeSpec == ScopeInit /\ [][ScopeNext]_vars

(***************************************************************************)
(* Expiration sweeper (src/noq_form/core/utils.py)                         *)
(***************************************************************************)

MaxNodes == 3       \* a resource tree holds 1..MaxNodes values

\* datetime.utcnow() during the sweep, and the instants expires_at may hold:
\* before, at and after it.
Now == 2
TimeVals == {Now - 1, Now, Now + 1}

\* A resource tree: value 1 is the root, every other value hangs under an
\* earlier one: alone as the value of a field ("field"), or with others as the
\* elements of a list field ("list"). A value is a BaseModel, which may declare expires_at, or a
\* scalar. expires_at is None or an instant; deleted is None, True or False.
ExpiresAtVals == {None} \cup {[at |-> t] : t \in TimeVals}
DeletedFlagVals == {None, [flag |-> TRUE], [flag |-> FALSE]}
Scalar ==
    [is_base_model |-> FALSE, declares_expires_at |-> FALSE,
     expires_at |-> None, deleted |-> None]
NodeVals ==
    {Scalar}
    \cup [is_base_model : {TRUE}, declares_expires_at : {FALSE},
          expires_at : {None}, deleted : {None}]
    \cup [is_base_model : {TRUE}, declares_expires_at : {TRUE},
          expires_at : ExpiresAtVals, deleted : DeletedFlagVals]
TreeShapes(n) == {p \in [1..n -> 0..(n - 1)] : \A i \in 1..n : p[i] < i /\ (i > 1 => p[i] >= 1)}
TreeLinks(p) ==
    [i \in DOMAIN p |->
        IF i = 1 THEN "root"
        ELSE IF \E j \in DOMAIN p : j # i /\ p[j] = p[i] THEN "list" ELSE "field"]
Tree(p, l, vals) ==
    [i \in DOMAIN p |->
        [parent |-> p[i], link |-> l[i], is_base_model |-> vals[i].is_base_model,
         declares_expires_at |-> vals[i].declares_expires_at,
         expires_at |-> vals[i].expires_at, deleted |-> vals[i].deleted]]

\* The values of the fields of value i, in field order.
RECURSIVE children_from(_, _, _)
children_from(resource, i, j) ==
    IF j > Len(resource) THEN <<>>
    ELSE (IF resource[j].parent = i THEN <<j>> ELSE <<>>)
         \o children_from(resource, i, j + 1)
children(resource, i) == children_from(resource, i, i + 1)

\* remove_expired_resources, lines 136-141: the values returned untouched.
returned_at_once(node) ==
    \/ ~node.is_base_model
    \/ ~node.declares_expires_at
    \/ node.deleted = [flag |-> FALSE]

\* An expiry test that also takes the current instant as passed.
expired_or_now(node, now) == node.expires_at # None /\ node.expires_at.at <= now

\* Lines 153-154.
expired(node, now) == node.expires_at # None /\ node.expires_at.at < now

\* A marking that also marks the values directly under the expired one, and
\* a marking that flips the flag.
mark_expired_with_fields(resource, i) ==
    [j \in DOMAIN resource |->
        IF j = i \/ resource[j].parent = i
        THEN [resource[j] EXCEPT !.deleted = [flag |-> FALSE]]
        ELSE resource[j]]
mark_expired_flip(resource, i) ==
    [resource EXCEPT ![i].deleted = [flag |-> (@ # [flag |-> TRUE])]]

\* Line 155.
mark_expired(resource, i) == [resource EXCEPT ![i].deleted = [flag |-> FALSE]]

\* The sweep of value i and, in field order, of the values under it; log
\* lists the values reported by log.info as expired (line 156). A list field
\* is swept through asyncio.gather, a plain field directly; the values under
\* different elements are disjoint.
RECURSIVE remove_expired_resources(_, _, _)
RECURSIVE sweep_fields(_, _, _)
remove_expired_resources(swept, i, now) ==
    IF returned_at_once(swept.resource[i]) THEN swept
    ELSE IF expired(swept.resource[i], now)
    THEN [resource |-> mark_expired(swept.resource, i), log |-> Append(swept.log, i)]
    ELSE sweep_fields(swept, children(swept.resource, i), now)
sweep_fields(swept, field_vals, now) ==
    IF field_vals = <<>> THEN swept
    ELSE sweep_fields(remove_expired_resources(swept, Head(field_vals), now),
                      Tail(field_vals), now)

Sweep(resource, now) == remove_expired_resources([resource |-> resource, log |-> <<>>], 1, now)

\* The sweep of a template's resource tree.
Call_remove_expired_resources ==
    /\ cmp_fn = "idle"
    /\ \E n \in 1..MaxNodes :
         \E p \in TreeShapes(n), vals \in [1..n -> NodeVals] :
            /\ vals[1].is_base_model
            /\ \A i \in 2..n : vals[p[i]].is_base_model
            /\ cmp_fn' = "remove_expired_resources"
            /\ cmp_args' = [resource |-> Tree(p, TreeLinks(p), vals), now |-> Now]
            /\ cmp_ret' = Sweep(Tree(p, TreeLinks(p), vals), Now)
            /\ cmp_calls' = <<>>
            /\ UNCHANGED semVars

\* A second sweep of the swept tree, at the same instant.
Call_remove_expired_resources_again ==
    /\ cmp_fn = "remove_expired_resources"
    /\ cmp_fn' = "remove_expired_resources again"
    /\ cmp_args' = [resource |-> cmp_ret.resource, now |-> cmp_args.now,
                    first_log |-> cmp_ret.log]
    /\ cmp_ret' = Sweep(cmp_ret.resource, cmp_args.now)
    /\ cmp_calls' = <<>>
    /\ UNCHANGED semVars

SweepInit == CmpInit
SweepNext ==
    \/ Call_remove_expired_resources
    \/ Call_remove_expired_resources_again
SweepSpec == SweepInit /\ [][SweepNext]_vars

(***************************************************************************)
(* CI/CD handlers (src/iambic/cicd/github.py, src/iambic/cicd/github_app.py)*)
(* and the lambda entry point they call (src/iambic/lambda/app.py)         *)
(***************************************************************************)

\* The outcome of a run of statements: the calls made, in order (the last one
\* is the call that raised, if one did), and the exception that left the run.
Done(calls) == [calls |-> calls, raised |-> FALSE, error |-> ""]
Fault(calls, error) == [calls |-> calls, raised |-> TRUE, error |-> error]

\* One call; it raises when errs names it, and the exception carries its name.
do(fn, arg, errs) ==
    IF fn \in errs THEN Fault(<<Call(fn, arg)>>, fn) ELSE Done(<<Call(fn, arg)>>)

\* Two runs in sequence: the second is not started when the first raised.
then(a, b) ==
    IF a.raised THEN a
    ELSE [calls |-> a.calls \o b.calls, raised |-> b.raised, error |-> b.error]

\* What a handler hands back to its caller.
Return(value) == [outcome |-> "returned", value |-> value]
Raise(error) == [outcome |-> "raised", error |-> error]

\* LambdaCommand and the match statement of run_handler, lines 25-32 and
\* 79-107: the command values, each with the run_* operation of its case.
LambdaCommand ==
    [import |-> "run_import", plan |-> "run_plan", apply |-> "run_apply",
     detect |-> "run_detect", git_apply |-> "run_git_apply",
     clone_git_repos |-> "run_clone_repos"]

\* "case _" of the match statement: the command is refused.
unknown_command(command, errs) == Fault(<<>>, "Unknown command")

\* os.getenv("IAMBIC_CONFIG"): unset, set to something that is not a secret
\* ARN, or a secret ARN.
IambicConfigVals == {"unset", "not_arn", "arn"}

\* A missing or empty context of run_handler.
NoContext == ""

\* run_handler of lambda/app.py, lines 41-107.  context is the command it
\* carries.
lambda_run_handler(context, iambic_config, iambic_assume_role, errs) ==
    LET command == IF context = NoContext THEN "import" ELSE context
        session == IF iambic_assume_role THEN do("assume_role", <<>>, errs)
                   ELSE Done(<<>>)
        match == IF command \in DOMAIN LambdaCommand
                 THEN do(LambdaCommand[command], <<>>, errs)
                 ELSE unknown_command(command, errs)
    IN IF iambic_config = "unset" THEN Fault(<<>>, "IAMBIC_CONFIG unset")
       ELSE IF iambic_config = "not_arn" THEN Fault(<<>>, "IAMBIC_CONFIG not an ARN")
       ELSE then(session, then(do("get_secret_value", <<>>, errs), match))

\* ---- src/iambic/cicd/github.py ----

MERGEABLE_STATE_CLEAN == "clean"
MergeableStates == {"clean", "blocked", "dirty"}

\* The bodies of the comments that reach handle_issue_comment.
CommentBodies ==
    {"iambic git-apply", "iambic git-apply ", "Iambic git-apply", "iambic git-plan",
     "approve"}

\* handle_issue_comment, line 161: the comment is the apply command.
comment_body_any_iambic(comment_body) ==
    comment_body \in {"iambic git-apply", "iambic git-apply ", "Iambic git-apply",
                      "iambic git-plan"}
comment_body_matches(comment_body) == comment_body = "iambic git-apply"

\* handle_issue_comment, line 179: the pull request may be merged.
mergeable(mergeable_state) == mergeable_state = MERGEABLE_STATE_CLEAN

\* The except clause of handle_issue_comment and of handle_pull_request
\* (lines 192-199, 223-230): a comment that carries the exception is posted
\* and the exception is raised again; when posting the comment raises, that
\* exception leaves the handler instead.
on_exception_swallow(body, value, errs) ==
    LET comment == do("create_issue_comment", <<"exception", body.error>>, errs)
    IN [calls |-> body.calls \o (IF body.raised THEN comment.calls ELSE <<>>),
        ret |-> Return(value)]
on_exception(body, value, errs) ==
    LET comment == do("create_issue_comment", <<"exception", body.error>>, errs)
    IN IF ~body.raised THEN [calls |-> body.calls, ret |-> Return(value)]
       ELSE [calls |-> body.calls \o comment.calls,
             ret |-> Raise(IF comment.raised THEN comment.error ELSE body.error)]

\* The statements before the try block, which no except clause covers.
uncovered(pre, rest) ==
    IF pre.raised THEN [calls |-> pre.calls, ret |-> Raise(pre.error)] ELSE rest

\* handle_issue_comment, lines 156-199.
handle_issue_comment(comment_body, mergeable_state, iambic_config, iambic_assume_role, errs) ==
    LET pull_request == then(do("get_repo", <<>>, errs), do("get_pull", <<>>, errs))
        not_clean == do("create_issue_comment", <<"mergeable_state", mergeable_state>>,
                        errs)
        body ==
            then(do("prepare_local_repo", <<>>, errs),
            then(lambda_run_handler("git_apply", iambic_config, iambic_assume_role, errs),
            then(do("post_result_as_pr_comment", <<"git-apply">>, errs),
            then(do("copy_data_to_data_directory", <<>>, errs),
                 do("merge", <<>>, errs)))))
        tried == on_exception(body, "MERGED", errs)
    IN IF ~comment_body_matches(comment_body)
       THEN [calls |-> <<>>, ret |-> Return("NO_MATCHING_BODY")]
       ELSE uncovered(pull_request,
              IF ~mergeable(mergeable_state)
              THEN uncovered(then(pull_request, not_clean),
                     [calls |-> pull_request.calls \o not_clean.calls,
                      ret |-> Return("MERGEABLE_STATE_NOT_CLEAN")])
              ELSE [calls |-> pull_request.calls \o tried.calls, ret |-> tried.ret])

\* handle_pull_request, lines 202-230.
handle_pull_request(iambic_config, iambic_assume_role, errs) ==
    LET pull_request == then(do("get_repo", <<>>, errs), do("get_pull", <<>>, errs))
        body ==
            then(do("prepare_local_repo_from_remote_branch", <<>>, errs),
            then(lambda_run_handler("git_plan", iambic_config, iambic_assume_role, errs),
            then(do("post_result_as_pr_comment", <<"git-plan">>, errs),
                 do("copy_data_to_data_directory", <<>>, errs))))
        tried == on_exception(body, "None", errs)
    IN uncovered(pull_request,
                 [calls |-> pull_request.calls \o tried.calls, ret |-> tried.ret])

\* The calls that may raise in an invocation: any one of them, or any two.
FewErrors(fns) == {e \in SUBSET fns : Cardinality(e) <= 2}

LambdaCalls == {"assume_role", "get_secret_value"} \cup {LambdaCommand[c] : c \in DOMAIN LambdaCommand}

Call_lambda_run_handler ==
    /\ cmp_fn = "idle"
    /\ \E context \in DOMAIN LambdaCommand \cup {NoContext, "git_plan"},
          iambic_config \in IambicConfigVals, iambic_assume_role \in BOOLEAN,
          errs \in FewErrors(LambdaCalls) :
         LET run == lambda_run_handler(context, iambic_config, iambic_assume_role, errs)
         IN Invoke("lambda_run_handler",
                   [context |-> context, iambic_config |-> iambic_config,
                    iambic_assume_role |-> iambic_assume_role, errs |-> errs],
                   [calls |-> run.calls,
                    ret |-> IF run.raised THEN Raise(run.error) ELSE Return("None")])

Call_handle_issue_comment ==
    /\ cmp_fn = "idle"
    /\ \E comment_body \in CommentBodies, mergeable_state \in MergeableStates,
          iambic_config \in IambicConfigVals, iambic_assume_role \in BOOLEAN,
          errs \in FewErrors({"get_repo", "get_pull", "create_issue_comment",
                              "prepare_local_repo", "assume_role", "get_secret_value",
                              "run_git_apply", "post_result_as_pr_comment",
                              "copy_data_to_data_directory", "merge"}) :
         Invoke("handle_issue_comment",
                [comment_body |-> comment_body, mergeable_state |-> mergeable_state,
                 iambic_config |-> iambic_config,
                 iambic_assume_role |-> iambic_assume_role, errs |-> errs],
                handle_issue_comment(comment_body, mergeable_state, iambic_config,
                                     iambic_assume_role, errs))

Call_handle_pull_request ==
    /\ cmp_fn = "idle"
    /\ \E iambic_config \in IambicConfigVals, iambic_assume_role \in BOOLEAN,
          errs \in FewErrors({"get_repo", "get_pull", "create_issue_comment",
                              "prepare_local_repo_from_remote_branch", "assume_role",
                              "get_secret_value", "run_plan",
                              "post_result_as_pr_comment",
                              "copy_data_to_data_directory"}) :
         Invoke("handle_pull_request",
                [iambic_config |-> iambic_config,
                 iambic_assume_role |-> iambic_assume_role, errs |-> errs],
                handle_pull_request(iambic_config, iambic_assume_role, errs))

\* ---- src/iambic/cicd/github_app.py ----

\* len(repo.head.commit.diff()) after "git add .".
DiffLens == {0, 1, 2}

\* Lines 306, 345, 373: the run changed the working tree.
has_changes(diff_len) == diff_len > 0

\* The except clauses of lines 327-329, 350-352, 378-380: log and raise again.
log_and_raise(body) ==
    [calls |-> body.calls,
     ret |-> IF body.raised THEN Raise(body.error) ELSE Return("None")]

\* handle_expire, lines 307-324, with the push before the apply.
expire_changes_push_first(iambic_config, iambic_assume_role, errs) ==
    then(do("git.commit", <<"-m", "expire">>, errs),
    then(do("push", <<"HEAD:main">>, errs),
         lambda_run_handler("git_apply", iambic_config, iambic_assume_role, errs)))

\* handle_expire, lines 307-324: commit, apply, then push.
expire_changes(iambic_config, iambic_assume_role, errs) ==
    then(do("git.commit", <<"-m", "expire">>, errs),
    then(lambda_run_handler("git_apply", iambic_config, iambic_assume_role, errs),
         do("push", <<"HEAD:main">>, errs)))

\* handle_expire, lines 293-329.
handle_expire(diff_len, iambic_config, iambic_assume_role, errs) ==
    log_and_raise(
        then(do("prepare_local_repo_for_new_commits", <<"expire">>, errs),
        then(do("run_expire", <<>>, errs),
        then(do("git.add", <<".">>, errs),
        then(do("commit.diff", <<>>, errs),
             IF has_changes(diff_len)
             THEN expire_changes(iambic_config, iambic_assume_role, errs)
             ELSE Done(<<>>))))))

\* handle_import, lines 332-352.
handle_import(diff_len, errs) ==
    log_and_raise(
        then(do("prepare_local_repo_for_new_commits", <<"import">>, errs),
        then(do("run_import", <<>>, errs),
        then(do("git.add", <<".">>, errs),
        then(do("commit.diff", <<>>, errs),
             IF has_changes(diff_len)
             THEN then(do("git.commit", <<"-m", "import">>, errs),
                       do("push", <<"HEAD:main">>, errs))
             ELSE Done(<<>>))))))

\* The default branch of the templates repository.
DefaultBranches == {"main", "trunk"}

\* handle_detect_changes_from_eventbridge, lines 355-380; get_repo is called
\* before the try block.
handle_detect_changes_from_eventbridge(diff_len, default_branch, errs) ==
    uncovered(do("get_repo", <<>>, errs),
        LET tried == log_and_raise(
                then(do("prepare_local_repo_for_new_commits", <<"detect">>, errs),
                then(do("run_detect", <<>>, errs),
                then(do("git.add", <<".">>, errs),
                then(do("commit.diff", <<>>, errs),
                     IF has_changes(diff_len)
                     THEN then(do("git.commit", <<"-m", "detect">>, errs),
                               do("push", <<"HEAD:" \o default_branch>>, errs))
                     ELSE Done(<<>>))))))
        IN [calls |-> <<Call("get_repo", <<>>)>> \o tried.calls, ret |-> tried.ret])

GitCalls == {"prepare_local_repo_for_new_commits", "git.add", "commit.diff", "git.commit", "push"}

Call_handle_expire ==
    /\ cmp_fn = "idle"
    /\ \E diff_len \in DiffLens, iambic_config \in IambicConfigVals,
          iambic_assume_role \in BOOLEAN,
          errs \in FewErrors(GitCalls \cup {"run_expire", "assume_role",
                                            "get_secret_value", "run_git_apply"}) :
         Invoke("handle_expire",
                [diff_len |-> diff_len, iambic_config |-> iambic_config,
                 iambic_assume_role |-> iambic_assume_role, errs |-> errs],
                handle_expire(diff_len, iambic_config, iambic_assume_role, errs))

Call_handle_import ==
    /\ cmp_fn = "idle"
    /\ \E diff_len \in DiffLens, errs \in FewErrors(GitCalls \cup {"run_import"}) :
         Invoke("handle_import", [diff_len |-> diff_len, errs |-> errs],
                handle_import(diff_len, errs))

Call_handle_detect_changes_from_eventbridge ==
    /\ cmp_fn = "idle"
    /\ \E diff_len \in DiffLens, default_branch \in DefaultBranches,
          errs \in FewErrors(GitCalls \cup {"get_repo", "run_detect"}) :
         Invoke("handle_detect_changes_from_eventbridge",
                [diff_len |-> diff_len, default_branch |-> default_branch,
                 errs |-> errs],
                handle_detect_changes_from_eventbridge(diff_len, default_branch, errs))

CicdInit == CmpInit

CicdNext ==
    \/ Call_lambda_run_handler
    \/ Call_handle_issue_comment
    \/ Call_handle_pull_request
    \/ Call_handle_expire
    \/ Call_handle_import
    \/ Call_handle_detect_changes_from_eventbridge

CicdSpec == CicdInit /\ [][CicdNext]_vars

(***************************************************************************)
(* Claims about NoqSemaphore, checked under SemSpec.                       *)
(***************************************************************************)

Running == {t \in DOMAIN tasks : tasks[t].pc = "running"}
Finished(c) == {t \in Range(proc[c].children) : tasks[t].pc \in {"done", "failed"}}
Failed(c) == {t \in Range(proc[c].children) : tasks[t].pc = "failed"}

\* C1: during process() with batch_size C at most C tasks execute the handler
\* body at any time, a task queues only when no permit is free, and a task
\* enters the handler only from a state in which fewer than C were running.
C1_AtMostBatchSizeRunning ==
    /\ [](/\ Cardinality(Running) <= batch_size
          /\ (limit.waiters # <<>> => limit.value = 0))
    /\ [][\A t \in DOMAIN tasks' :
             (t \in Running' /\ (t \notin DOMAIN tasks \/ t \notin Running))
                 => Cardinality(Running) < batch_size]_vars

\* C1 witness: the ceiling is reached, a task is queued behind it, and a task
\* beyond the first C has entered the handler after an earlier one finished.
C1_Witness ==
    /\ Cardinality(Running) = batch_size
    /\ limit.waiters # <<>>
    /\ \E t \in Running : t > batch_size
    /\ \E u \in DOMAIN tasks : tasks[u].pc \in {"done", "failed"}

\* C2: when process() returns, the result list has the length of the message
\* list and its i-th entry is the handler's result for the i-th message.
C2_ResultsInInputOrder ==
    \A c \in DOMAIN proc :
        proc[c].state = "returned" =>
            /\ Len(proc[c].result) = Len(proc[c].messages)
            /\ \A i \in 1..Len(proc[c].messages) :
                   proc[c].result[i] = callback_function(proc[c].messages[i])

\* C2 witness: process() returned for distinct messages whose handlers
\* finished in an order other than the input order.
C2_Witness ==
    \E c \in DOMAIN proc :
        /\ proc[c].state = "returned"
        /\ Len(proc[c].messages) >= 2
        /\ proc[c].finished # proc[c].children
        /\ proc[c].messages[1] # proc[c].messages[2]

\* C3: if the handler of an item raised, process() does not return a result
\* list: it raises, and the error it raises is the error of the item that
\* failed first; no handler is invoked more than once.
C3_FailurePropagatesNoRetry ==
    /\ [](\A c \in DOMAIN proc :
            /\ (proc[c].state = "returned" => Failed(c) = {})
            /\ (proc[c].state = "raised" =>
                   \E i \in 1..Len(proc[c].finished) :
                      /\ tasks[proc[c].finished[i]].pc = "failed"
                      /\ proc[c].error = callback_error(proc[c].finished[i])
                      /\ \A j \in 1..(i - 1) : tasks[proc[c].finished[j]].pc = "done"))
    /\ [](\A t \in DOMAIN tasks : tasks[t].invoked <= 1)
    /\ \A c \in CallIds :
          (c \in DOMAIN proc /\ Failed(c) # {})
              ~> (c \in DOMAIN proc /\ proc[c].state = "raised")

\* C3 witness: two handlers of one batch raised and process() has raised.
C3_Witness ==
    \E c \in DOMAIN proc :
        /\ proc[c].state = "raised"
        /\ Cardinality(Failed(c)) >= 2

\* C4: when a handler raises, no sibling task is cancelled or skipped: every
\* item of the batch is still invoked once and runs its handler to completion.
C4_SiblingsRunToCompletion ==
    /\ [](\A t \in DOMAIN tasks : tasks[t].pc # "cancelled")
    /\ \A c \in CallIds :
          (c \in DOMAIN proc /\ proc[c].state = "raised") ~>
              (/\ c \in DOMAIN proc
               /\ \A t \in Range(proc[c].children) :
                     tasks[t].pc \in {"done", "failed"} /\ tasks[t].invoked = 1)

\* C4 witness: process() has raised, and a sibling that was still queued for
\* a permit when the error surfaced has since run its handler to completion.
C4_Witness ==
    \E c \in DOMAIN proc :
        /\ proc[c].state = "raised"
        /\ Finished(c) = Range(proc[c].children)
        /\ Len(proc[c].finished) = Len(proc[c].children)
        /\ Len(proc[c].children) > batch_size
        /\ tasks[proc[c].finished[1]].pc = "failed"
        /\ tasks[proc[c].finished[Len(proc[c].finished)]].pc = "done"

(***************************************************************************)
(* Claims about the comparators, checked under CmpSpec.                    *)
(***************************************************************************)

Invoked == cmp_fn # "idle"
NoMutatingCall == \A i \in DOMAIN cmp_calls : cmp_calls[i].fn \notin MutatingCalls

\* C5: with execute = false no comparator issues a mutating provider call.
C5_PlanModeIssuesNoWrite ==
    (Invoked /\ ~cmp_args.execute) => NoMutatingCall

\* C6: with execute = true and import_only = true the managed-policy
\* comparators return the ProposedChange records of the drift and issue no
\* mutating call.
C6_ImportOnlyIssuesNoWrite ==
    (/\ cmp_fn \in {"apply_managed_policy_tags", "update_managed_policy"}
     /\ cmp_args.execute
     /\ cmp_args.iambic_import_only)
        => /\ NoMutatingCall
           /\ cmp_ret.outcome = "returned"

\* The transition table of the lifecycle driver: from, to, method, endpoint.
TransitionRows ==
    {<<"suspended", "active", "POST", "/lifecycle/unsuspend">>,
     <<"active", "suspended", "POST", "/lifecycle/suspend">>,
     <<"provisioned", "active", "POST", "/lifecycle/reactivate">>,
     <<"locked_out", "active", "POST", "/lifecycle/unlock">>}
    \cup {<<f, "deprovisioned", "POST", "/lifecycle/deactivate">> :
             f \in Statuses \ {"deprovisioned"}}
    \cup {<<f, t, "POST", "/lifecycle/activate">> :
             f \in {"staged", "deprovisioned"}, t \in {"active", "provisioned"}}
    \cup {<<f, "recovery", "POST", "/lifecycle/reset_password">> : f \in Statuses}
    \cup {<<f, "password_expired", "POST", "/lifecycle/expire_password">> :
             f \in Statuses}
    \cup {<<f, "deleted", "DELETE", "">> : f \in Statuses}

RowsOf(from, to) == {r \in TransitionRows : r[1] = from /\ r[2] = to}

\* An update_user_status invocation for a user that exists and a change of status.
StatusChange ==
    /\ cmp_fn = "update_user_status"
    /\ cmp_args.user_present
    /\ cmp_args.current_status # cmp_args.new_status

\* C7 as stated: a status change outside the table fails with the invalid
\* transition error and issues no request, whatever the execution mode.
C7_InvalidTransitionFailsInEveryMode ==
    (StatusChange /\ RowsOf(cmp_args.current_status, cmp_args.new_status) = {})
        => (cmp_ret.outcome = "raised" /\ ProviderCalls(cmp_calls) = <<>>)

\* C7 amended: in apply mode a status change outside the table fails with the
\* invalid transition error and issues no request; in plan mode it issues no
\* request either and returns the single UPDATE record.
C7_InvalidTransitionFailsInApplyMode ==
    (StatusChange /\ RowsOf(cmp_args.current_status, cmp_args.new_status) = {})
        => /\ ProviderCalls(cmp_calls) = <<>>
           /\ cmp_args.execute => cmp_ret.outcome = "raised"
           /\ ~cmp_args.execute =>
                 (cmp_ret.outcome = "returned" /\ Len(cmp_ret.value) = 1)

\* C7 witness: apply mode, active to staged, which no row lists, has raised.
C7_Witness ==
    /\ StatusChange
    /\ cmp_args.execute
    /\ cmp_args.current_status = "active" /\ cmp_args.new_status = "staged"
    /\ cmp_ret.outcome = "raised"

\* C8: in apply mode a status change listed in the table creates exactly one
\* request, the one of its row, and executes that request and nothing else
\* (it is not executed only when creating it reported an error).
C8_ListedTransitionIssuesItsOperation ==
    (StatusChange /\ cmp_args.execute
       /\ RowsOf(cmp_args.current_status, cmp_args.new_status) # {})
        => \E r \in RowsOf(cmp_args.current_status, cmp_args.new_status) :
              LET req == Request(r[3], r[4])
                  sent == ProviderCalls(cmp_calls)
              IN /\ Cardinality(RowsOf(cmp_args.current_status,
                                       cmp_args.new_status)) = 1
                 /\ sent = IF "create_request" \in cmp_args.errs
                           THEN <<Call("create_request", req)>>
                           ELSE <<Call("create_request", req), Call("execute", req)>>
                 /\ (cmp_args.errs = {} => cmp_ret.outcome = "returned")

\* C8 witness: suspended to deleted in apply mode was one DELETE of the user.
C8_Witness ==
    /\ StatusChange
    /\ cmp_args.execute
    /\ cmp_args.current_status = "suspended" /\ cmp_args.new_status = "deleted"
    /\ cmp_args.errs = {}
    /\ ProviderCalls(cmp_calls) = <<Call("create_request", Request("DELETE", "")),
                                    Call("execute", Request("DELETE", ""))>>

\* C9: when the observed status equals the desired status, update_user_status
\* and change_user_status return an empty list and issue no provider call, in
\* plan mode and in apply mode.
C9_EqualStatusNoChange ==
    (/\ cmp_fn \in {"update_user_status", "change_user_status"}
     /\ cmp_args.current_status = cmp_args.new_status)
        => /\ cmp_ret = Returned(<<>>)
           /\ ProviderCalls(cmp_calls) = <<>>

\* C9 witness: update_user_status in apply mode for a user already in the
\* desired status "recovery".
C9_Witness ==
    /\ cmp_fn = "update_user_status"
    /\ cmp_args.user_present
    /\ cmp_args.execute
    /\ cmp_args.current_status = "recovery" /\ cmp_args.new_status = "recovery"
    /\ cmp_ret = Returned(<<>>)

\* The invoked comparator run again on the same arguments with the given
\* execution mode (no client call failing).
RerunWith(execute) ==
    CASE cmp_fn = "update_managed_policy" ->
            update_managed_policy(cmp_args.template_policy_document,
                cmp_args.existing_policy_document, cmp_args.iambic_import_only,
                execute, cmp_args.policy_versions, {})
      [] cmp_fn = "apply_managed_policy_tags" ->
            apply_managed_policy_tags(cmp_args.template_tags, cmp_args.existing_tags,
                cmp_args.iambic_import_only, execute, {}, "as_listed")
      [] cmp_fn = "update_user_status" ->
            update_user_status(cmp_args.user_present, cmp_args.current_status,
                cmp_args.new_status, execute, {})
      [] cmp_fn = "change_user_status" ->
            change_user_status(cmp_args.current_status, cmp_args.new_status,
                execute, {})
      [] cmp_fn = "update_user_profile" ->
            update_user_profile(cmp_args.proposed_user_deleted, cmp_args.user_present,
                cmp_args.current_profile, cmp_args.new_profile, execute, {})
      [] cmp_fn = "maybe_delete_user" ->
            maybe_delete_user(cmp_args.delete, cmp_args.user_present, execute, {})
      [] cmp_fn = "update_user_assignments" ->
            update_user_assignments(cmp_args.current_assignments,
                cmp_args.new_assignments, execute, {})

\* C10: for the same observed and desired state a comparator that completes
\* in both modes returns the same list of ProposedChange records with
\* execute = false as with execute = true.
C10_SameChangesInBothModes ==
    (/\ Invoked
     /\ cmp_args.errs = {}
     /\ cmp_ret.outcome = "returned"
     /\ RerunWith(~cmp_args.execute).ret.outcome = "returned")
        => RerunWith(~cmp_args.execute).ret = cmp_ret

\* The records of one change type in a returned list, and the positions of
\* the calls of one name.
ChangesOfType(response, change_type) ==
    SelectSeq(response, LAMBDA c : c.change_type = change_type)
CallsOf(fns) == {i \in DOMAIN cmp_calls : cmp_calls[i].fn \in fns}

\* C11: update_user_assignments returns a list of ProposedChange in every
\* execution mode: exactly one DETACH listing the assignments to remove when
\* there are some, exactly one ATTACH listing the assignments to add when
\* there are some, and nothing else.
C11_ReturnsChangeListInEveryMode ==
    cmp_fn = "update_user_assignments" =>
        LET to_remove == Range(cmp_args.current_assignments)
                            \ Range(cmp_args.new_assignments)
            to_add == Range(cmp_args.new_assignments)
                            \ Range(cmp_args.current_assignments)
            detach == ChangesOfType(cmp_ret.value, "DETACH")
            attach == ChangesOfType(cmp_ret.value, "ATTACH")
        IN /\ cmp_ret.outcome = "returned"
           /\ cmp_ret.kind = "list"
           /\ Len(detach) = (IF to_remove # {} THEN 1 ELSE 0)
           /\ Len(attach) = (IF to_add # {} THEN 1 ELSE 0)
           /\ Len(cmp_ret.value) = Len(detach) + Len(attach)
           /\ \A i \in DOMAIN detach :
                 Range(detach[i].change_summary.AssignmentsToRemove) = to_remove
           /\ \A i \in DOMAIN attach :
                 Range(attach[i].change_summary.AssignmentsToAdd) = to_add

\* The tag comparator's inputs and answer, read off the invocation.
TagsReturned == cmp_fn = "apply_managed_policy_tags" /\ cmp_ret.outcome = "returned"
KeysOf(tags) == {tags[i].Key : i \in DOMAIN tags}
StaleKeys == KeysOf(cmp_args.existing_tags) \ KeysOf(cmp_args.template_tags)
NewKeys == KeysOf(cmp_args.template_tags) \ KeysOf(cmp_args.existing_tags)

C13_DesiredKeyNeverRemoved ==
    cmp_fn = "apply_managed_policy_tags" =>
        /\ \A i \in CallsOf({"untag_policy"}) :
              Range(cmp_calls[i].arg.TagKeys) \cap KeysOf(cmp_args.template_tags) = {}
        /\ cmp_ret.outcome = "returned" =>
              LET detach == ChangesOfType(cmp_ret.value, "DETACH")
              IN UNION {Range(detach[i].change_summary.TagKeys) : i \in DOMAIN detach}
                    = StaleKeys

\* C14: in apply mode every removal call is issued before any addition call:
\* no remove_user_from_app or deassign_application_from_user call follows an
\* assign_application_to_user call, and no tag_policy call precedes an
\* untag_policy call.
RemovalCalls == {"remove_user_from_app", "deassign_application_from_user", "untag_policy"}
AdditionCalls == {"assign_application_to_user", "tag_policy"}
C14_RemovalsBeforeAdditions ==
    (cmp_fn \in {"update_user_assignments", "apply_managed_policy_tags"}
     /\ cmp_args.execute)
        => \A i \in CallsOf(AdditionCalls), j \in CallsOf(RemovalCalls) : j < i

\* The managed-policy comparator's observed document, parsed, and whether it
\* differs from the desired one in the order of list items at most.
ExistingDoc ==
    IF IsStr(cmp_args.existing_policy_document)
    THEN cmp_args.existing_policy_document.json
    ELSE cmp_args.existing_policy_document
SameUpToOrder(d1, d2) ==
    /\ d1.Version = d2.Version
    /\ \A x \in StatementVals : Count(d1.Statement, x) = Count(d2.Statement, x)

\* C15: update_managed_policy treats documents that differ only in the order
\* of list items as equal (empty list, no provider call); for any other
\* difference it returns exactly one UPDATE for attribute policy_document
\* whose current_value and new_value are the full existing and desired
\* documents.
C15_OrderInsensitiveDrift ==
    cmp_fn = "update_managed_policy" =>
        IF SameUpToOrder(ExistingDoc, cmp_args.template_policy_document)
        THEN cmp_ret = Returned(<<>>) /\ cmp_calls = <<>>
        ELSE cmp_ret.outcome = "returned" =>
                /\ Len(cmp_ret.value) = 1
                /\ cmp_ret.value[1].change_type = "UPDATE"
                /\ cmp_ret.value[1].attribute = "policy_document"
                /\ cmp_ret.value[1].current_value = ExistingDoc
                /\ cmp_ret.value[1].new_value = cmp_args.template_policy_document

C15_Witness ==
    /\ cmp_fn = "update_managed_policy"
    /\ cmp_args.execute /\ ~cmp_args.iambic_import_only
    /\ ExistingDoc.Statement = <<"X", "Y">>
    /\ cmp_args.template_policy_document.Statement = <<"Y", "X">>
    /\ ExistingDoc.Version = cmp_args.template_policy_document.Version
    /\ cmp_ret = Returned(<<>>)

\* C16: when update_managed_policy applies a changed document and the policy
\* has 5 versions it issues exactly one delete_policy_version, before the
\* single create_policy_version; with fewer than 5 versions it issues no
\* delete and one create.
C16_EvictOldestBeforeCreate ==
    (/\ cmp_fn = "update_managed_policy"
     /\ cmp_args.execute /\ ~cmp_args.iambic_import_only
     /\ cmp_args.errs = {}
     /\ ~SameUpToOrder(ExistingDoc, cmp_args.template_policy_document))
        => /\ Cardinality(CallsOf({"delete_policy_version"}))
                 = (IF Len(cmp_args.policy_versions) = 5 THEN 1 ELSE 0)
           /\ Cardinality(CallsOf({"create_policy_version"})) = 1
           /\ \A i \in CallsOf({"delete_policy_version"}),
                 j \in CallsOf({"create_policy_version"}) : i < j

C16_Witness ==
    /\ cmp_fn = "update_managed_policy"
    /\ cmp_args.execute /\ ~cmp_args.iambic_import_only
    /\ Len(cmp_args.policy_versions) = 5
    /\ CallsOf({"delete_policy_version"}) # {}
    /\ CallsOf({"create_policy_version"}) # {}

\* The resolver's inputs, read off the invocation.
Resolved == cmp_fn = "get_closest_value"
VariantIndexes == IF Resolved THEN DOMAIN cmp_args.matching_values ELSE {}
HasPattern(v, pattern) ==
    pattern \in Range(cmp_args.matching_values[v].included_accounts)
TargetIds ==
    {cmp_args.account_config.account_id}
    \cup (IF cmp_args.account_config.account_name # NoName
          THEN {lower(cmp_args.account_config.account_name)} ELSE {})
StartsWith(str, prefix) ==
    Len(prefix) <= Len(str) /\ \A i \in DOMAIN prefix : str[i] = prefix[i]

\* C17: for a list of exactly one variant get_closest_value returns that
\* variant, whatever its rule contains.
C17_SingleVariantReturned ==
    (Resolved /\ Len(cmp_args.matching_values) = 1)
        => cmp_ret.outcome = "returned" /\ cmp_ret.returns = 1

C17_Witness ==
    /\ Resolved
    /\ Len(cmp_args.matching_values) = 1
    /\ cmp_args.matching_values[1].included_accounts = <<<<"2">>, Star>>
    /\ cmp_args.account_config.account_name # NoName
    /\ cmp_ret.outcome = "returned" /\ cmp_ret.returns = 1

\* C18: for a list of two or more variants in which exactly one variant's
\* included_accounts contains the literal target account id,
\* get_closest_value returns that variant even if another variant contains
\* "*", for every order of the variants and every length of the account id.
\* Stated for a target without account name whose other variants hold
\* nothing but "*".
C18_LiteralIdBeatsWildcard ==
    \A v \in VariantIndexes :
        (/\ Resolved
         /\ Len(cmp_args.matching_values) >= 2
         /\ cmp_args.account_config.account_name = NoName
         /\ HasPattern(v, cmp_args.account_config.account_id)
         /\ \A w \in VariantIndexes \ {v} :
               Range(cmp_args.matching_values[w].included_accounts) \subseteq {Star})
            => cmp_ret.outcome = "returned" /\ cmp_ret.returns = v

\* C19: for every target account, with or without an account name, and a
\* list of two or more variants in which no pattern matches a candidate id
\* and exactly one variant contains "*", get_closest_value returns the "*"
\* variant. A pattern that a candidate id merely starts with is counted as
\* matching here.
C19_WildcardOnlyMatch ==
    \A v \in VariantIndexes :
        (/\ Resolved
         /\ Len(cmp_args.matching_values) >= 2
         /\ HasPattern(v, Star)
         /\ \A w \in VariantIndexes \ {v} : ~HasPattern(w, Star)
         /\ \A w \in VariantIndexes :
               \A pattern \in Range(cmp_args.matching_values[w].included_accounts) \ {Star} :
                  \A id \in TargetIds : ~StartsWith(id, lower(pattern)))
            => cmp_ret.outcome = "returned" /\ cmp_ret.returns = v

\* The score the scoring rule gives a variant: the greatest of the lengths of
\* its matching patterns, "*" counting 1, and 0 without a match.
PatternScore(pattern) ==
    IF pattern = Star THEN 1
    ELSE IF \E id \in TargetIds : StartsWith(id, lower(pattern)) THEN Len(pattern)
    ELSE 0
VariantScore(v) ==
    LET scores == {PatternScore(pattern) :
                      pattern \in Range(cmp_args.matching_values[v].included_accounts)}
                  \cup {0}
    IN CHOOSE n \in scores : \A k \in scores : k <= n

\* C20: a matching pattern scores its length and "*" scores 1; the winner is
\* replaced only by a strictly greater score, so among the variants with the
\* same highest score the first in list order is returned.
C20_FirstOfHighestScoreWins ==
    \A v \in VariantIndexes :
        (/\ Resolved
         /\ Len(cmp_args.matching_values) >= 2
         /\ VariantScore(v) > 0
         /\ \A w \in VariantIndexes : VariantScore(w) <= VariantScore(v)
         /\ \A w \in VariantIndexes : w < v => VariantScore(w) < VariantScore(v))
            => cmp_ret.outcome = "returned" /\ cmp_ret.returns = v

\* The scope predicate's inputs, read off the invocation; the claims' own
\* notion of a pattern that names a candidate id.
Evaluated == cmp_fn = "evaluate_on_account" /\ cmp_args.resource.is_access_model
CharCases(c) ==
    IF c \in {"a", "A"} THEN {"a", "A"}
    ELSE IF c \in {"b", "B"} THEN {"b", "B"}
    ELSE {c}
RECURSIVE CaseVariants(_)
CaseVariants(str) ==
    IF str = <<>> THEN {<<>>}
    ELSE {<<c>> \o t : c \in CharCases(Head(str)), t \in CaseVariants(Tail(str))}
TargetNameCases ==
    IF cmp_args.account_config.account_name = NoName THEN {}
    ELSE CaseVariants(cmp_args.account_config.account_name)
Names(pattern, id) == pattern # Star /\ id \in CaseVariants(pattern)
NamesTarget(pattern) ==
    \/ Names(pattern, cmp_args.account_config.account_id)
    \/ \E name \in TargetNameCases : Names(pattern, name)
BeginsTarget(pattern) ==
    \E id \in {cmp_args.account_config.account_id} \cup TargetNameCases :
        \E head \in CaseVariants(pattern) : StartsWith(id, head)

\* C21: evaluate_on_account returns false for an access-scoped resource
\* whenever the target's org_id is set and in excluded_orgs, or set and
\* matched by no pattern of included_orgs, or some pattern of
\* excluded_accounts matches the account id or the lower-cased account name,
\* whatever included_accounts holds.
C21_DenialsTakePrecedence ==
    (/\ Evaluated
     /\ \/ /\ cmp_args.account_config.org_id # OrgUnset
           /\ cmp_args.account_config.org_id \in Range(cmp_args.resource.excluded_orgs)
        \/ /\ cmp_args.account_config.org_id # OrgUnset
           /\ \A pattern \in Range(cmp_args.resource.included_orgs) :
                 pattern # Star /\ ~StartsWith(cmp_args.account_config.org_id, pattern)
        \/ \E pattern \in Range(cmp_args.resource.excluded_accounts) :
              NamesTarget(pattern))
        => cmp_ret.outcome = "returned" /\ cmp_ret.returns = FALSE

\* C22: for an access-scoped resource that the org and exclusion rules do not
\* deny, evaluate_on_account returns true if and only if included_accounts
\* holds "*" or a pattern matching the account id or the lower-cased account
\* name; with empty included_accounts it returns false.
C22_IncludedDecides ==
    (/\ Evaluated
     /\ \/ cmp_args.account_config.org_id = OrgUnset
        \/ /\ cmp_args.account_config.org_id \notin Range(cmp_args.resource.excluded_orgs)
           /\ cmp_args.account_config.org_id \in Range(cmp_args.resource.included_orgs)
     /\ \A pattern \in Range(cmp_args.resource.excluded_accounts) :
           pattern # Star /\ ~BeginsTarget(pattern))
        => /\ cmp_ret.outcome = "returned"
           /\ cmp_ret.returns =
                 (\E pattern \in Range(cmp_args.resource.included_accounts) :
                     pattern = Star \/ BeginsTarget(pattern))

\* C23: apply_to_account returns false for every resource whose deleted
\* attribute is the plain boolean true; for the plain boolean false the
\* result is that of evaluate_on_account.
C23_DeletedTrueOutOfScope ==
    (cmp_fn = "apply_to_account" /\ cmp_args.deleted.kind = "bool")
        => IF cmp_args.deleted.flag
           THEN cmp_ret.outcome = "returned" /\ cmp_ret.returns = FALSE
           ELSE cmp_ret = evaluate_on_account(cmp_args.resource, cmp_args.account_config)

\* The invocation with the letter case of one pattern of one list, or of the
\* account name, changed.
WithPattern(patterns, i, pattern) == [patterns EXCEPT ![i] = pattern]
ResourceCases ==
    {[cmp_args.resource EXCEPT !.included_accounts = WithPattern(@, i, pattern)] :
        <<i, pattern>> \in
           UNION {{<<k, q>> : q \in CaseVariants(cmp_args.resource.included_accounts[k])} :
                    k \in DOMAIN cmp_args.resource.included_accounts}}
    \cup
    {[cmp_args.resource EXCEPT !.excluded_accounts = WithPattern(@, i, pattern)] :
        <<i, pattern>> \in
           UNION {{<<k, q>> : q \in CaseVariants(cmp_args.resource.excluded_accounts[k])} :
                    k \in DOMAIN cmp_args.resource.excluded_accounts}}
AccountCases ==
    {[cmp_args.account_config EXCEPT !.account_name = name] :
        name \in CaseVariants(cmp_args.account_config.account_name)}
MatchingValuesCases ==
    UNION {UNION {{[cmp_args.matching_values EXCEPT
                       ![v].included_accounts = WithPattern(@, i, pattern)] :
                     pattern \in CaseVariants(cmp_args.matching_values[v].included_accounts[i])} :
                  i \in DOMAIN cmp_args.matching_values[v].included_accounts} :
           v \in DOMAIN cmp_args.matching_values}

\* C24: account matching is case-insensitive: the results of
\* evaluate_on_account and get_closest_value do not change when the letter
\* case of an included_accounts or excluded_accounts pattern, or of the
\* target's account name, is changed.
C24_CaseInsensitive ==
    /\ cmp_fn = "evaluate_on_account" =>
          /\ \A resource \in ResourceCases :
                evaluate_on_account(resource, cmp_args.account_config) = cmp_ret
          /\ \A account_config \in AccountCases :
                evaluate_on_account(cmp_args.resource, account_config) = cmp_ret
    /\ cmp_fn = "get_closest_value" =>
          /\ \A matching_values \in MatchingValuesCases :
                get_closest_value(matching_values, cmp_args.account_config) = cmp_ret
          /\ \A account_config \in AccountCases :
                get_closest_value(cmp_args.matching_values, account_config) = cmp_ret

C24_Witness ==
    /\ Evaluated
    /\ cmp_args.resource.included_accounts = <<<<"A", "b">>>>
    /\ cmp_args.resource.excluded_accounts = <<>>
    /\ cmp_args.account_config.account_id = <<"1">>
    /\ cmp_args.account_config.account_name = <<"A", "b">>
    /\ cmp_args.account_config.org_id = OrgUnset
    /\ cmp_ret.outcome = "returned" /\ cmp_ret.returns = TRUE

\* The sweeper's tree before and after the sweep, read off the invocation.
Swept == cmp_fn = "remove_expired_resources"
SweptAgain == cmp_fn = "remove_expired_resources again"
NodeIds == IF Swept \/ SweptAgain THEN DOMAIN cmp_args.resource ELSE {}
Before(i) == cmp_args.resource[i]
After(i) == cmp_ret.resource[i]
Marked == Range(cmp_ret.log)
Eligible(node) ==
    node.is_base_model /\ node.declares_expires_at /\ node.deleted # [flag |-> FALSE]
Past(node) == node.expires_at # None /\ node.expires_at.at < cmp_args.now
RECURSIVE AncestorsOf(_)
AncestorsOf(i) ==
    IF Before(i).parent = 0 THEN {}
    ELSE {Before(i).parent} \cup AncestorsOf(Before(i).parent)

\* C25: after remove_expired_resources runs on an eligible node whose
\* expires_at is set and strictly before the current time, the node's deleted
\* flag is true. Stated for the node the sweep is called on.
C25_ExpiredNodeIsDeleted ==
    (Swept /\ Eligible(Before(1)) /\ Past(Before(1)))
        => After(1).deleted = [flag |-> TRUE]

\* C26: when the sweep marks a node as expired it does not descend into it:
\* no descendant of the marked node has any field changed, even one whose own
\* expires_at is in the past.
C26_NoDescentBelowMarked ==
    Swept => \A i \in Marked, j \in NodeIds :
                i \in AncestorsOf(j) => After(j) = Before(j)

C26_Witness ==
    /\ Swept
    /\ \E i \in Marked, j \in NodeIds :
          /\ i \in AncestorsOf(j)
          /\ Eligible(Before(j)) /\ Past(Before(j))

\* C27: a second sweep of the tree, with no time advance, leaves every node's
\* deleted flag as the first sweep left it.
C27_SecondSweepChangesNothing ==
    SweptAgain => \A i \in NodeIds : After(i).deleted = Before(i).deleted

C27_Witness ==
    /\ SweptAgain
    /\ Len(cmp_args.first_log) >= 2
    /\ \E i \in NodeIds : Eligible(Before(i)) /\ ~Past(Before(i))

C29_EveryExpiredNodeReached ==
    Swept => \A i \in NodeIds :
                (/\ Eligible(Before(i)) /\ Past(Before(i))
                 /\ AncestorsOf(i) \cap Marked = {})
                    => i \in Marked

\* C30: in apply mode, whenever a provider call made by a comparator reports
\* an error the comparator raises instead of returning normally, and the
\* failed call is not made again.
C30_ProviderErrorRaises ==
    (/\ cmp_fn \in {"update_managed_policy", "apply_managed_policy_tags",
                    "update_user_status", "change_user_status", "update_user_profile",
                    "maybe_delete_user", "update_user_assignments"}
     /\ cmp_args.execute
     /\ \E i \in DOMAIN cmp_calls : cmp_calls[i].fn \in cmp_args.errs)
        => /\ cmp_ret.outcome = "raised"
           /\ \A i, j \in DOMAIN cmp_calls :
                 (i < j /\ cmp_calls[i].fn \in cmp_args.errs)
                    => cmp_calls[j] # cmp_calls[i]

(***************************************************************************)
(* Further claims about the comparators, checked under CmpSpec.            *)
(***************************************************************************)

\* The requests of the transition table rows for a status change.
TableRequests(from, to) == {Request(r[3], r[4]) : r \in RowsOf(from, to)}

\* C31: no status comparator sends the status value itself to the provider:
\* every provider call made by update_user_status or change_user_status is
\* the creation or the execution of the request of a transition table row for
\* the change at hand, so a change outside the table sends nothing.
C31_StatusOnlyThroughTable ==
    (cmp_fn \in {"update_user_status", "change_user_status"})
        => \A i \in DOMAIN ProviderCalls(cmp_calls) :
              LET c == ProviderCalls(cmp_calls)[i]
              IN /\ c.fn \in {"create_request", "execute"}
                 /\ c.arg \in TableRequests(cmp_args.current_status,
                                            cmp_args.new_status)

\* The versions of a list that are not the default version.
NonDefaultVersions(policy_versions) ==
    {v \in Range(policy_versions) : ~v.IsDefaultVersion}

\* C33: for every list of versions with one default and at least one other
\* version, get_oldest_policy_version_id is the id of a non-default version
\* whose CreateDate no other non-default version precedes, and that id is
\* the one update_managed_policy evicts.
C33_EvictedVersionIsOldestNonDefault ==
    (/\ cmp_fn = "update_managed_policy"
     /\ NonDefaultVersions(cmp_args.policy_versions) # {})
        => LET oldest == get_oldest_policy_version_id(cmp_args.policy_versions)
           IN /\ \E v \in NonDefaultVersions(cmp_args.policy_versions) :
                    /\ oldest = [VersionId |-> v.VersionId]
                    /\ \A w \in NonDefaultVersions(cmp_args.policy_versions) :
                          v.CreateDate <= w.CreateDate
              /\ \A i \in CallsOf({"delete_policy_version"}) :
                    cmp_calls[i].arg = oldest

\* C33 witness: five versions, the default one is the earliest and shares its
\* date with another version, and a non-default version was evicted.
C33_Witness ==
    /\ cmp_fn = "update_managed_policy"
    /\ Len(cmp_args.policy_versions) = 5
    /\ \E i, j \in DOMAIN cmp_args.policy_versions :
          /\ i < j
          /\ cmp_args.policy_versions[i].IsDefaultVersion
          /\ cmp_args.policy_versions[i].CreateDate
                = cmp_args.policy_versions[j].CreateDate
          /\ \A k \in DOMAIN cmp_args.policy_versions :
                cmp_args.policy_versions[i].CreateDate
                    <= cmp_args.policy_versions[k].CreateDate
          /\ \E c \in CallsOf({"delete_policy_version"}) :
                cmp_calls[c].arg = [VersionId |-> j]

(***************************************************************************)
(* Further claims about NoqSemaphore.                                      *)
(***************************************************************************)

AllTasksFinished ==
    \A t \in DOMAIN tasks : tasks[t].pc \in {"done", "failed"}

\* C37: with handlers that terminate, a process() call that awaits its tasks
\* eventually returns or raises; every task it created eventually ends,
\* having entered the handler once, so no queued item is left without a
\* permit; and whenever all tasks have ended every permit is back in the
\* semaphore and nobody queues, also when handlers raised.
C37_TerminatesAndPermitsReturn ==
    /\ (\E c \in DOMAIN proc : proc[c].state = "awaiting")
          ~> (\A c \in DOMAIN proc : proc[c].state \in {"returned", "raised"})
    /\ (tasks # <<>>)
          ~> (AllTasksFinished /\ \A t \in DOMAIN tasks : tasks[t].invoked = 1)
    /\ [](AllTasksFinished => limit = [value |-> batch_size, waiters |-> <<>>])

\* C37 witness: more items than permits, a handler raised while a task was
\* queued, process() raised, every task has ended and all permits are free.
C37_Witness ==
    /\ Len(tasks) > batch_size
    /\ AllTasksFinished
    /\ \E t \in DOMAIN tasks : tasks[t].pc = "failed" /\ t <= batch_size
    /\ \E t \in DOMAIN tasks : tasks[t].pc = "done" /\ t > batch_size
    /\ proc[1].state = "raised"
    /\ callbacks = <<>>
    /\ limit.value = batch_size

\* The process() calls that have tasks in the handler body.
CallsRunning == {tasks[t].call : t \in Running}

\* C38: over all process() calls made on one instance the number of tasks in
\* the handler body never exceeds batch_size, and a task enters the handler
\* only when fewer than batch_size were in it, whichever call it belongs to.
C38_CeilingSharedByCalls ==
    /\ [](Cardinality(Running) <= batch_size)
    /\ [][\A t \in DOMAIN tasks' :
             (t \in Running' /\ (t \notin DOMAIN tasks \/ t \notin Running))
                 => Cardinality(Running) < batch_size]_vars

\* C38 witness: two calls overlap, both have a task in the handler body, the
\* ceiling is reached and a task queues for a permit.
C38_Witness ==
    /\ CallsRunning = CallIds
    /\ Cardinality(Running) = batch_size
    /\ limit.waiters # <<>>

(***************************************************************************)
(* Further claims about the scope rules and the sweeper's callers.         *)
(***************************************************************************)

\* C39: get_closest_value, evaluate_on_account and apply_to_account return a
\* value for every target and every rule made of literal identifiers and
\* "*": none of them ends with an exception.
C39_ScopeFunctionsNeverRaise ==
    (cmp_fn \in {"get_closest_value", "evaluate_on_account", "apply_to_account"})
        => cmp_ret.outcome = "returned"

(***************************************************************************)
(* Claims about the CI/CD handlers, checked under CicdSpec.                *)
(***************************************************************************)

\* A call of the invocation that did not raise.
Succeeded(i) == cmp_calls[i].fn \notin cmp_args.errs

\* The pull request was fetched: get_repo and get_pull did not raise.
PullRequestFetched == {"get_repo", "get_pull"} \cap cmp_args.errs = {}

\* C32: handle_issue_comment calls merge only for the exact body
\* "iambic git-apply" on a pull request whose mergeable_state is clean, after
\* a git_apply run that did not raise and after the result comment was
\* posted; another body makes no call at all; a mergeable_state that is not
\* clean makes one comment call and no clone, apply, result comment or merge.
C32_MergeOnlyAfterCleanApply ==
    (cmp_fn = "handle_issue_comment")
        => /\ \A m \in CallsOf({"merge"}) :
                 /\ cmp_args.comment_body = "iambic git-apply"
                 /\ cmp_args.mergeable_state = "clean"
                 /\ \E a \in CallsOf({"run_git_apply"}),
                       r \in CallsOf({"post_result_as_pr_comment"}) :
                       /\ Succeeded(a) /\ Succeeded(r)
                       /\ cmp_calls[r].arg = <<"git-apply">>
                       /\ a < r /\ r < m
           /\ cmp_args.comment_body # "iambic git-apply"
                 => (cmp_calls = <<>> /\ cmp_ret = Return("NO_MATCHING_BODY"))
           /\ (/\ cmp_args.comment_body = "iambic git-apply"
               /\ cmp_args.mergeable_state # "clean"
               /\ PullRequestFetched)
                 => /\ Cardinality(CallsOf({"create_issue_comment"})) = 1
                    /\ CallsOf({"prepare_local_repo", "run_git_apply",
                                "post_result_as_pr_comment", "merge"}) = {}

\* C32 witness: the apply command on a clean pull request ended with MERGED,
\* the merge being the last call.
C32_Witness ==
    /\ cmp_fn = "handle_issue_comment"
    /\ cmp_ret = Return("MERGED")
    /\ cmp_calls # <<>>
    /\ cmp_calls[Len(cmp_calls)] = Call("merge", <<>>)
    /\ CallsOf({"run_git_apply"}) # {}

\* The steps of the try blocks of handle_issue_comment and
\* handle_pull_request, the merge aside.
TrySteps ==
    {"prepare_local_repo", "prepare_local_repo_from_remote_branch", "assume_role",
     "get_secret_value", "run_git_apply", "run_plan", "post_result_as_pr_comment",
     "copy_data_to_data_directory"}

\* The steps of the try block that raised in this invocation.
RaisedSteps == {i \in DOMAIN cmp_calls : cmp_calls[i].fn \in TrySteps \cap cmp_args.errs}

\* The lambda run_handler was entered and refused its environment.
ConfigRefused ==
    /\ \E i \in CallsOf({"prepare_local_repo", "prepare_local_repo_from_remote_branch"}) :
          Succeeded(i)
    /\ cmp_args.iambic_config # "arn"

\* C34: when a step of the try block of handle_issue_comment or of
\* handle_pull_request raises, no merge is called, the handler raises, and
\* (the comment call itself not failing) exactly one comment is posted after
\* the failed step, it carries the step's exception, and that exception is
\* the one raised to the caller; handle_pull_request never calls merge.
C34_FailureCommentsAndReraises ==
    (cmp_fn \in {"handle_issue_comment", "handle_pull_request"})
        => /\ (RaisedSteps # {} \/ ConfigRefused)
                 => /\ CallsOf({"merge"}) = {}
                    /\ cmp_ret.outcome = "raised"
                    /\ "create_issue_comment" \notin cmp_args.errs
                          => /\ CallsOf({"create_issue_comment"}) = {Len(cmp_calls)}
                             /\ cmp_calls[Len(cmp_calls)].arg
                                   = <<"exception", cmp_ret.error>>
                             /\ \A i \in RaisedSteps :
                                   /\ i = Len(cmp_calls) - 1
                                   /\ cmp_ret.error = cmp_calls[i].fn
                             /\ RaisedSteps = {} =>
                                   cmp_ret.error \in {"IAMBIC_CONFIG unset",
                                                      "IAMBIC_CONFIG not an ARN"}
           /\ cmp_fn = "handle_pull_request" => CallsOf({"merge"}) = {}

\* C34 witness: in handle_issue_comment the result comment was posted, then
\* copying the plan raised: the exception comment followed and the handler
\* raised that exception.
C34_Witness ==
    /\ cmp_fn = "handle_issue_comment"
    /\ cmp_ret = Raise("copy_data_to_data_directory")
    /\ \E r \in CallsOf({"post_result_as_pr_comment"}) : Succeeded(r)
    /\ cmp_calls[Len(cmp_calls)]
          = Call("create_issue_comment", <<"exception", "copy_data_to_data_directory">>)
    /\ CallsOf({"merge"}) = {}

\* C35: the commands that handle_issue_comment and handle_pull_request pass
\* to the lambda run_handler are dispatched to a run_* operation: neither
\* handler ends with the "Unknown command" error, and a pull_request event in
\* which no call fails ends with the plan comment posted.
C35_HandlersPassKnownCommands ==
    (cmp_fn \in {"handle_issue_comment", "handle_pull_request"})
        => /\ cmp_ret # Raise("Unknown command")
           /\ (/\ cmp_fn = "handle_pull_request"
               /\ cmp_args.errs = {}
               /\ cmp_args.iambic_config = "arn")
                 => /\ cmp_ret.outcome = "returned"
                    /\ \E r \in CallsOf({"post_result_as_pr_comment"}) :
                          cmp_calls[r].arg = <<"git-plan">>

CommitHandlers ==
    {"handle_expire", "handle_import", "handle_detect_changes_from_eventbridge"}

\* The calls that raised in this invocation.
RaisedCalls == {i \in DOMAIN cmp_calls : ~Succeeded(i)}

\* C36: handle_expire, handle_import and
\* handle_detect_changes_from_eventbridge commit and push only when the diff
\* is not empty, and then (nothing failing) commit once and push once; in
\* handle_expire the commit precedes the git_apply run, which precedes the
\* push; when a step before the push raises nothing is pushed, and whatever
\* raised is raised again to the caller.
C36_CommitAndPushOnlyOnChanges ==
    (cmp_fn \in CommitHandlers)
        => /\ CallsOf({"git.commit", "push"}) # {} => cmp_args.diff_len > 0
           /\ (/\ cmp_args.diff_len > 0
               /\ cmp_args.errs = {}
               /\ cmp_fn = "handle_expire" => cmp_args.iambic_config = "arn")
                 => /\ Cardinality(CallsOf({"git.commit"})) = 1
                    /\ Cardinality(CallsOf({"push"})) = 1
                    /\ cmp_ret = Return("None")
           /\ \A p \in CallsOf({"push"}) :
                 /\ \E c \in CallsOf({"git.commit"}) : Succeeded(c) /\ c < p
                 /\ cmp_fn = "handle_expire"
                       => \E c \in CallsOf({"git.commit"}),
                             a \in CallsOf({"run_git_apply"}) :
                             Succeeded(a) /\ c < a /\ a < p
           /\ \A i \in RaisedCalls :
                 /\ cmp_ret = Raise(cmp_calls[i].fn)
                 /\ cmp_calls[i].fn # "push" => CallsOf({"push"}) = {}
           /\ (cmp_fn = "handle_expire" /\ cmp_args.iambic_config # "arn")
                 => CallsOf({"push"}) = {}

\* C36 witness: handle_expire committed, the git_apply run raised, and the
\* handler raised without a push.
C36_Witness ==
    /\ cmp_fn = "handle_expire"
    /\ cmp_ret = Raise("run_git_apply")
    /\ \E c \in CallsOf({"git.commit"}) : Succeeded(c)
    /\ CallsOf({"push"}) = {}

====
